---- MODULE Spec2Model ----
(***************************************************************************)
(* Model of the face tracker: process_video (main.py), FaceTracker         *)
(* (tracker.py) and DatabaseManager (database.py).                         *)
(*                                                                         *)
(* Conventions.  Python's None is the empty tuple, which is falsy in       *)
(* Python as well.  A bounding box is <<x, y, w, h>>.  A person id is      *)
(* <<"person", n>> (counter path) or <<"person_", k>> (uuid fallback).     *)
(* A timestamp is <<frame_num, k>>, ordered lexicographically: the clock   *)
(* reading taken while detection k >= 1 of that frame is resolved;         *)
(* <<f, 0>> is a reading between the resolutions of frames f - 1 and f     *)
(* (handle_exits of frame f - 1, update_trackers of frame f).              *)
(* A cosine similarity is the real number num / sqrt(den2), kept as the    *)
(* record [num, den2] so that every comparison is exact integer            *)
(* arithmetic.                                                             *)
(***************************************************************************)
EXTENDS Integers, Sequences, FiniteSets, TLC

VARIABLES
    pc,                \* position in process_video
    frame_num,         \* local frame_num
    detections,        \* local detections: the current frame's <<x,y,w,h,conf>>
    idx,               \* position of the for loop over detections (1-based)
    emb,               \* local emb (None while unbound and when extraction fails)
    assigned_id,       \* local assigned_id (None while unbound)
    is_new_person,     \* local is_new_person
    timestamp_now,     \* local timestamp_now (None while unbound)
    known_embeddings,  \* local known_embeddings: sequence of <<person_id, vector>>
    tracked_people,    \* FaceTracker.tracked_people in dict order
    people,            \* store: collection people
    face_data,         \* store: collection face_data, in insertion order
    visit_records,     \* store: collection visit_records, in insertion order
    counter,           \* store: collection counter, <<current_number>> or empty
    exit_thresh,       \* config exit_frame_threshold
    max_frames,        \* argument max_frames (0 for None: both are falsy)
    store_faults,      \* persistence calls that may still fail in this run
    db_calls,          \* DatabaseManager calls issued by the last step, in order
    fn                 \* the last direct call of a gallery function: arguments, results

vars == <<pc, frame_num, detections, idx, emb, assigned_id, is_new_person,
          timestamp_now, known_embeddings,
          tracked_people, people, face_data, visit_records, counter,
          exit_thresh, max_frames, store_faults, db_calls, fn>>

None == <<>>

\* ---------------------------------------------------------------- bounds
MaxDets == 2          \* faces per frame
MaxStreamFrames == 3  \* frames the source can deliver
NumUuids == 1         \* distinct values of uuid4().hex[:8]
MaxHistory == 11      \* stored embeddings of one person in the gallery runs
MaxGallery == 3       \* entries of the in-memory gallery in the matching runs
CadenceFrames == 4    \* frames of the stream in the cadence runs
MaxMints == 5         \* get_next_person_id calls of the two concurrent runs
MaxFaults == 1        \* persistence calls that fail in a faulty run
FaultyFrames == 2     \* max_frames of a faulty run

\* ---------------------------------------------------------------- config
detect_skip == 2
conf_thresh == 6          \* tenths: 0.6
MatchRadius == 100
CarryRadius == 50
RecentLimit == 10
FrameShape == <<480, 640>>   \* frame.shape of the source: rows, columns
sim_thresh == [num |-> 1, den2 |-> 4]          \* 0.5
diversity_thresh == [num |-> 4, den2 |-> 25]   \* 0.8

\* ---------------------------------------------------------------- inputs
Boxes == { <<50, 100, 50, 50>>, <<100, 100, 50, 50>>,
           <<105, 102, 50, 50>>, <<150, 100, 50, 50>> }
Confs == {5, 9}
VecA == <<1, 0, 0>>
VecB == <<0, 1, 0>>
Embeddings == {VecA, VecB}

\* ---------------------------------------------------------------- helpers
Max(a, b) == IF a >= b THEN a ELSE b
Min(a, b) == IF a <= b THEN a ELSE b
Range(s) == {s[i] : i \in 1..Len(s)}

RECURSIVE SelectIdx(_, _, _)
\* the subsequence of s at the positions i >= from with keep[i]
SelectIdx(s, keep, from) ==
    IF from > Len(s) THEN <<>>
    ELSE (IF keep[from] THEN <<s[from]>> ELSE <<>>) \o SelectIdx(s, keep, from + 1)

\* ---------------------------------------------------------------- geometry
\* 4 * (squared distance between the centres of two boxes); centres are
\* x + w/2, y + h/2, so doubling keeps the arithmetic in the integers.
Dist2x4(a, b) ==
    LET dx == (2 * a[1] + a[3]) - (2 * b[1] + b[3])
        dy == (2 * a[2] + a[4]) - (2 * b[2] + b[4])
    IN  dx * dx + dy * dy

\* distance < r
Within(a, b, r) == Dist2x4(a, b) < 4 * r * r

\* ---------------------------------------------------------------- similarity
Dot(a, b) == a[1] * b[1] + a[2] * b[2] + a[3] * b[3]
Norm2(a) == Dot(a, a)
SimZero == [num |-> 0, den2 |-> 1]
SimMinusOne == [num |-> -1, den2 |-> 1]
NaN == [num |-> 0, den2 |-> 0]

\* sign(n) * n^2 * d: monotone in n / sqrt(d') for a common scale
SgnSq(n, d) == IF n >= 0 THEN n * n * d ELSE -(n * n * d)
SimLT(s, t) == SgnSq(s.num, t.den2) < SgnSq(t.num, s.den2)
SimGE(s, t) == ~SimLT(s, t)
\* > read as >=
SimGTInclusive(s, t) == SimGE(s, t)

SimGT(s, t) == SimLT(t, s)
SimMax(s, t) == IF SimGT(t, s) THEN t ELSE s

\* dot / (norm a * norm b); a zero divisor yields NaN
Divide(n, d2) == IF d2 = 0 THEN NaN ELSE [num |-> n, den2 |-> d2]

\* cosine_similarity without the zero-norm test
cosine_similarity_unguarded(a, b) == Divide(Dot(a, b), Norm2(a) * Norm2(b))

\* DatabaseManager.cosine_similarity
cosine_similarity(a, b) ==
    IF Norm2(a) = 0 \/ Norm2(b) = 0 THEN SimZero
    ELSE Divide(Dot(a, b), Norm2(a) * Norm2(b))

\* utils.cosine_similarity
utils_cosine_similarity(a, b) ==
    IF Norm2(a) = 0 \/ Norm2(b) = 0 THEN SimZero
    ELSE Divide(Dot(a, b), Norm2(a) * Norm2(b))

\* ---------------------------------------------------------------- gallery
RECURSIVE FindBestFrom(_, _, _, _, _, _)
\* the loop of find_best_match from entry i on
FindBestFrom(new_embedding, known, i, best_id, best_sim, second_best_sim) ==
    IF i > Len(known) THEN <<best_id, best_sim, second_best_sim>>
    ELSE LET sim == cosine_similarity(new_embedding, known[i][2])
         IN  IF SimGT(sim, best_sim)
             THEN FindBestFrom(new_embedding, known, i + 1, known[i][1], sim, best_sim)
             ELSE IF SimGT(sim, second_best_sim)
                  THEN FindBestFrom(new_embedding, known, i + 1, best_id, best_sim, sim)
                  ELSE FindBestFrom(new_embedding, known, i + 1, best_id, best_sim,
                                    second_best_sim)

\* find_best_match that never moves best_id off the first candidate
find_best_match_first(new_embedding, known) ==
    LET r == FindBestFrom(new_embedding, known, 1, None, SimMinusOne, SimMinusOne)
    IN  <<IF known = <<>> THEN None ELSE known[1][1], r[2], r[3]>>

find_best_match(new_embedding, known) ==
    FindBestFrom(new_embedding, known, 1, None, SimMinusOne, SimMinusOne)

RECURSIVE RecentFrom(_, _, _, _)
\* face_data.find({person_id}).sort(created_time, -1).limit(n): created_time
\* never decreases along the insertion order (timestamp_now only moves
\* forward), so the newest-first order is the reverse insertion order.
RecentFrom(fd, person_id, i, n) ==
    IF i = 0 \/ n = 0 THEN <<>>
    ELSE IF fd[i].person_id = person_id
         THEN <<fd[i].face_vector>> \o RecentFrom(fd, person_id, i - 1, n - 1)
         ELSE RecentFrom(fd, person_id, i - 1, n)

\* the query without .limit(10)
RecentEmbeddingsAll(fd, person_id, n) == RecentFrom(fd, person_id, Len(fd), Len(fd))

RecentEmbeddings(fd, person_id, n) == RecentFrom(fd, person_id, Len(fd), n)

RECURSIVE MaxSimFrom(_, _, _, _)
MaxSimFrom(new_embedding, existing, i, max_sim) ==
    IF i > Len(existing) THEN max_sim
    ELSE MaxSimFrom(new_embedding, existing, i + 1,
                    SimMax(max_sim, cosine_similarity(new_embedding, existing[i])))

\* the filter retaining everything
should_store_embedding_always(fd, person_id, new_embedding, read_fails) == TRUE

\* the filter retaining nothing
should_store_embedding_never(fd, person_id, new_embedding, read_fails) == FALSE

\* the filter declining when its read raises
should_store_embedding_declining(fd, person_id, new_embedding, read_fails) ==
    IF read_fails THEN FALSE
    ELSE LET existing == RecentEmbeddings(fd, person_id, RecentLimit)
         IN  IF existing = <<>> THEN TRUE
             ELSE SimLT(MaxSimFrom(new_embedding, existing, 1, SimZero),
                        diversity_thresh)

\* read_fails: the face_data query raises
should_store_embedding(fd, person_id, new_embedding, read_fails) ==
    IF read_fails THEN TRUE
    ELSE LET existing == RecentEmbeddings(fd, person_id, RecentLimit)
         IN  IF existing = <<>> THEN TRUE
             ELSE SimLT(MaxSimFrom(new_embedding, existing, 1, SimZero),
                        diversity_thresh)

\* ---------------------------------------------------------------- store
Call(op, person_id, arg) == [op |-> op, person_id |-> person_id, arg |-> arg]

\* the call of find_best_match with the triple it returned (line 196)
MatchCall(r) == [op |-> "find_best_match", person_id |-> None, arg |-> "",
                 best_id |-> r[1], best_sim |-> r[2], second_best_sim |-> r[3]]

PersonIds(pp) == {p.person_id : p \in pp}

\* people.update_one({person_id}, {$set last_seen, $inc visit_count})
UpdateLastSeen(pp, person_id, ts) ==
    {IF p.person_id = person_id
     THEN [p EXCEPT !.last_seen = ts, !.visit_count = @ + 1]
     ELSE p : p \in pp}

RECURSIVE ApplyLastSeen(_, _, _, _)
\* the effect of the update_last_seen calls calls[i..] on people
ApplyLastSeen(pp, calls, i, ts) ==
    IF i > Len(calls) THEN pp
    ELSE ApplyLastSeen(UpdateLastSeen(pp, calls[i].person_id, ts), calls, i + 1, ts)

\* ---------------------------------------------------------------- tracker
Box(det) == <<det[1], det[2], det[3], det[4]>>
TrackedIds(tp) == {tp[i].person_id : i \in 1..Len(tp)}
TrackIndex(tp, person_id) == CHOOSE i \in 1..Len(tp) : tp[i].person_id = person_id

Inf == -1

RECURSIVE ScanDetectionsLast(_, _, _, _, _, _)
\* the inner loop keeping the later detection on equal distance
ScanDetectionsLast(last_bbox, dets, assigned, i, best_match_idx, best_distance) ==
    IF i > Len(dets) THEN best_match_idx
    ELSE IF i \in assigned
         THEN ScanDetectionsLast(last_bbox, dets, assigned, i + 1, best_match_idx,
                                 best_distance)
         ELSE LET distance == Dist2x4(last_bbox, Box(dets[i]))
              IN  IF /\ distance < 4 * MatchRadius * MatchRadius
                     /\ (best_distance = Inf \/ distance <= best_distance)
                  THEN ScanDetectionsLast(last_bbox, dets, assigned, i + 1, i, distance)
                  ELSE ScanDetectionsLast(last_bbox, dets, assigned, i + 1,
                                          best_match_idx, best_distance)

RECURSIVE ScanDetections(_, _, _, _, _, _)
\* the inner loop of _assign_detections_to_tracks: best_match_idx, 0 for -1
ScanDetections(last_bbox, dets, assigned, i, best_match_idx, best_distance) ==
    IF i > Len(dets) THEN best_match_idx
    ELSE IF i \in assigned
         THEN ScanDetections(last_bbox, dets, assigned, i + 1, best_match_idx,
                             best_distance)
         ELSE LET distance == Dist2x4(last_bbox, Box(dets[i]))
              IN  IF /\ distance < 4 * MatchRadius * MatchRadius
                     /\ (best_distance = Inf \/ distance < best_distance)
                  THEN ScanDetections(last_bbox, dets, assigned, i + 1, i, distance)
                  ELSE ScanDetections(last_bbox, dets, assigned, i + 1,
                                      best_match_idx, best_distance)

RECURSIVE AssignFrom(_, _, _, _, _)
\* the outer loop of _assign_detections_to_tracks from track k on
AssignFrom(tp, dets, fnum, k, assigned) ==
    IF k > Len(tp) THEN tp
    ELSE LET last_bbox == tp[k].last_known_bbox
         IN  IF last_bbox = None THEN AssignFrom(tp, dets, fnum, k + 1, assigned)
             ELSE LET best == ScanDetections(last_bbox, dets, assigned, 1, 0, Inf)
                  IN  IF best # 0
                      THEN AssignFrom(
                               [tp EXCEPT ![k] = [@ EXCEPT
                                    !.bbox = Box(dets[best]),
                                    !.last_known_bbox = Box(dets[best]),
                                    !.last_seen_frame = fnum,
                                    !.conf = dets[best][5]]],
                               dets, fnum, k + 1, assigned \cup {best})
                      ELSE AssignFrom(tp, dets, fnum, k + 1, assigned)

\* every track taking its nearest detection without the assigned_detections set
assign_detections_independently(tp, dets, fnum) ==
    [k \in 1..Len(tp) |->
        IF tp[k].last_known_bbox = None THEN tp[k]
        ELSE LET best == ScanDetections(tp[k].last_known_bbox, dets, {}, 1, 0, Inf)
             IN  IF best # 0
                 THEN [tp[k] EXCEPT !.bbox = Box(dets[best]),
                                    !.last_known_bbox = Box(dets[best]),
                                    !.last_seen_frame = fnum,
                                    !.conf = dets[best][5]]
                 ELSE tp[k]]

assign_detections_to_tracks(tp, dets, fnum) == AssignFrom(tp, dets, fnum, 1, {})

\* update_trackers without the reset of lines 21-22
ResetBoxesNot(tp) == tp

ResetBoxes(tp) == [i \in 1..Len(tp) |-> [tp[i] EXCEPT !.bbox = None]]

\* update_trackers that forgets the tracks it could not match
update_trackers_pruning(tp, fnum, dets) ==
    LET reset == ResetBoxes(tp)
        after == IF dets # <<>> THEN assign_detections_to_tracks(reset, dets, fnum)
                 ELSE reset
    IN  SelectSeq(after, LAMBDA t : t.bbox # None)

\* update_trackers refreshing every track on a frame without detections
update_trackers_refreshing(tp, fnum, dets) ==
    LET reset == ResetBoxes(tp)
    IN  IF dets # <<>> THEN assign_detections_to_tracks(reset, dets, fnum)
        ELSE [i \in 1..Len(reset) |-> [reset[i] EXCEPT !.last_seen_frame = fnum]]

\* update_trackers: the tracked set afterwards
update_trackers(tp, fnum, dets) ==
    LET reset == ResetBoxes(tp)
    IN  IF dets # <<>> THEN assign_detections_to_tracks(reset, dets, fnum)
        ELSE [i \in 1..Len(reset) |->
                 IF reset[i].bbox # None
                 THEN [reset[i] EXCEPT !.last_seen_frame = fnum]
                 ELSE reset[i]]

\* update_trackers: the update_last_seen calls of the branch without detections
update_trackers_calls(tp, dets) ==
    LET reset == ResetBoxes(tp)
    IN  IF dets # <<>> THEN <<>>
        ELSE LET keep == [i \in 1..Len(reset) |-> reset[i].bbox # None]
                 hit == SelectIdx(reset, keep, 1)
             IN  [i \in 1..Len(hit) |-> Call("update_last_seen", hit[i].person_id, "")]

\* handle_exits comparing with >= instead of >
ExitDueAtThreshold(t, current_frame_num, thresh) ==
    current_frame_num - t.last_seen_frame >= thresh

\* handle_exits granting one more frame of absence
ExitDueLate(t, current_frame_num, thresh) ==
    current_frame_num - t.last_seen_frame > thresh + 1

\* handle_exits: who leaves
ExitDue(t, current_frame_num, thresh) == current_frame_num - t.last_seen_frame > thresh

\* register_face that always adds a dict entry
register_face_append(tp, person_id, bbox, crop, conf, ts, fnum) ==
    Append(tp, [person_id |-> person_id, last_seen_frame |-> fnum, bbox |-> bbox,
                last_known_bbox |-> bbox, last_crop |-> crop, conf |-> conf,
                last_seen_time |-> ts])

register_face(tp, person_id, bbox, crop, conf, ts, fnum) ==
    LET data == [person_id |-> person_id, last_seen_frame |-> fnum, bbox |-> bbox,
                 last_known_bbox |-> bbox, last_crop |-> crop, conf |-> conf,
                 last_seen_time |-> ts]
    IN  IF person_id \in TrackedIds(tp)
        THEN [tp EXCEPT ![TrackIndex(tp, person_id)] = data]
        ELSE Append(tp, data)

\* ---------------------------------------------------------------- process_video
\* the padded, clipped face region of lines 157-160: <<frame, xa, ya, xb, yb>>
Crop(fnum, bbox) ==
    LET pad == Max(bbox[3], bbox[4]) \div 10
    IN  <<fnum, Max(0, bbox[1] - pad), Max(0, bbox[2] - pad),
          Min(FrameShape[2], bbox[1] + bbox[3] + pad),
          Min(FrameShape[1], bbox[2] + bbox[4] + pad)>>

CropEmpty(crop) == crop[4] <= crop[2] \/ crop[5] <= crop[3]

\* save_cropped_face with save_cropped = True: the file holds the crop
SavedPath(prefix, crop) == <<prefix, crop>>

RECURSIVE PositionMatchFrom(_, _, _)
\* lines 170-186: the first tracked person, in dict order, whose current
\* bbox centre is closer than CarryRadius; None without one
PositionMatchFrom(tp, bbox, i) ==
    IF i > Len(tp) THEN None
    ELSE IF tp[i].bbox # None /\ Within(tp[i].bbox, bbox, CarryRadius)
         THEN tp[i].person_id
         ELSE PositionMatchFrom(tp, bbox, i + 1)

RECURSIVE PositionMatchWideFrom(_, _, _)
PositionMatchWideFrom(tp, bbox, i) ==
    IF i > Len(tp) THEN None
    ELSE IF tp[i].bbox # None /\ Within(tp[i].bbox, bbox, MatchRadius)
         THEN tp[i].person_id
         ELSE PositionMatchWideFrom(tp, bbox, i + 1)

\* the carry-over check run with the tracker's radius
PositionMatchWide(tp, bbox) == PositionMatchWideFrom(tp, bbox, 1)

\* the carry-over check choosing the nearest current box within CarryRadius
PositionMatchNearest(tp, bbox) ==
    LET near == {i \in 1..Len(tp) :
                   tp[i].bbox # None /\ Within(tp[i].bbox, bbox, CarryRadius)}
    IN  IF near = {} THEN None
        ELSE tp[CHOOSE i \in near :
                   \A j \in near :
                      \/ Dist2x4(tp[i].bbox, bbox) < Dist2x4(tp[j].bbox, bbox)
                      \/ /\ Dist2x4(tp[i].bbox, bbox) = Dist2x4(tp[j].bbox, bbox)
                         /\ i <= j].person_id

\* the carry-over check left out: nobody is matched by position
PositionMatchNobody(tp, bbox) == None

PositionMatch(tp, bbox) == PositionMatchFrom(tp, bbox, 1)

\* line 201 with > for >=
EmbeddingMatchStrict(best_id, best_sim) == SimGT(best_sim, sim_thresh) /\ best_id # None

\* line 201
EmbeddingMatch(best_id, best_sim) == SimGE(best_sim, sim_thresh) /\ best_id # None

VisitRecord(person_id, action, ts, photo_path) ==
    [person_id |-> person_id, action |-> action, timestamp |-> ts,
     photo_path |-> photo_path]

FaceDoc(person_id, vec, ts) ==
    [person_id |-> person_id, face_vector |-> vec, created_time |-> ts]

PersonDoc(person_id, ts) ==
    [person_id |-> person_id, first_seen |-> ts, last_seen |-> ts, visit_count |-> 1]

FaultPoints == {"counter", "people_insert", "face_insert", "visit", "hist_read",
                "emb_insert", "last_seen"}

\* the diversity-filter insert of lines 227-231 outside a try block
PropagatingInsert(F) == F \cap {"emb_insert"}

\* the raising calls whose exception leaves the DatabaseManager method or the
\* try block of lines 226-234: each of them catches Exception
Propagating(F) == {}

\* the sets of calls that can raise while k faults are left
FaultSets(k) ==
    IF k = 0 THEN {{}} ELSE {F \in SUBSET FaultPoints : Cardinality(F) <= k}

\* ---------------------------------------------------------------- initial states
ExitThreshs == {0, 1}
\* the store before DatabaseManager() has run on it
FreshStore == [people |-> {}, face_data |-> <<>>, visit_records |-> <<>>,
               counter |-> <<>>]
NoCall == [op |-> "none", person_id |-> None, a |-> None, b |-> None,
           sim |-> SimZero, sim_utils |-> SimZero, second_best_sim |-> SimZero,
           retain |-> FALSE]

InitWith(threshs, faults, frames) ==
    /\ pc = "start"
    /\ frame_num = 0
    /\ detections = <<>>
    /\ idx = 0
    /\ emb = None
    /\ assigned_id = None
    /\ is_new_person = FALSE
    /\ timestamp_now = None
    /\ known_embeddings = <<>>
    /\ tracked_people = <<>>
    /\ people = FreshStore.people
    /\ face_data = FreshStore.face_data
    /\ visit_records = FreshStore.visit_records
    /\ counter = FreshStore.counter
    /\ exit_thresh \in threshs
    /\ max_frames = frames
    /\ store_faults = faults
    /\ db_calls = <<>>
    /\ fn = NoCall

\* a run over a reliable store
Init == InitWith(ExitThreshs, 0, MaxStreamFrames)

\* a run of FaultyFrames frames in which MaxFaults persistence calls may fail
InitFaulty == InitWith({0}, MaxFaults, FaultyFrames)

\* ---------------------------------------------------------------- actions
\* DatabaseManager.__init__ -> _init_counter: the counter document is created
\* when it is missing, unless the store raises (init_fails)
init_counter(init_fails) ==
    /\ init_fails => store_faults > 0
    /\ store_faults' = IF init_fails THEN store_faults - 1 ELSE store_faults
    /\ counter' = IF counter = <<>> /\ ~init_fails THEN <<0>> ELSE counter

\* get_all_face_data
get_all_face_data(fd) ==
    [i \in 1..Len(fd) |-> <<fd[i].person_id, fd[i].face_vector>>]

\* lines 77-130 with the source opened
Start ==
    /\ UNCHANGED fn
    /\ pc = "start"
    /\ pc' = "loop"
    /\ \E init_fails \in BOOLEAN : init_counter(init_fails)
    /\ known_embeddings' = get_all_face_data(face_data)
    /\ db_calls' = <<>>
    /\ UNCHANGED <<frame_num, detections, idx, emb, assigned_id, is_new_person,
                   timestamp_now, tracked_people, people, face_data, visit_records,
                   exit_thresh, max_frames>>

\* lines 77-91 with cap.isOpened() false: process_video returns None
OpenFails ==
    /\ UNCHANGED fn
    /\ pc = "start"
    /\ pc' = "aborted"
    /\ \E init_fails \in BOOLEAN : init_counter(init_fails)
    /\ db_calls' = <<>>
    /\ UNCHANGED <<frame_num, detections, idx, emb, assigned_id, is_new_person,
                   timestamp_now, known_embeddings, tracked_people, people, face_data,
                   visit_records, exit_thresh, max_frames>>

\* lines 134-137: cap.read() delivers no frame
EndOfStream ==
    /\ UNCHANGED fn
    /\ pc = "loop"
    /\ pc' = "final"
    /\ db_calls' = <<>>
    /\ UNCHANGED <<frame_num, detections, idx, emb, assigned_id, is_new_person,
                   timestamp_now, known_embeddings,
                   tracked_people, people, face_data, visit_records, counter,
                   exit_thresh, max_frames, store_faults>>

\* the faces of a frame are reported from left to right
LeftToRight(dets) == \A i \in 1..(Len(dets) - 1) : dets[i][1] < dets[i + 1][1]

\* what the detection model can report for one frame
RawDetections ==
    {dets \in UNION {[1..n -> {<<b[1], b[2], b[3], b[4], c>> : b \in Boxes, c \in Confs}]
                     : n \in 0..MaxDets} : LeftToRight(dets)}

\* detect_faces: drops reports below the confidence threshold
detect_faces(raw) ==
    SelectIdx(raw, [i \in 1..Len(raw) |-> ~(raw[i][5] < conf_thresh)], 1)

\* line 150 without the cadence: resolution only when nobody is tracked
RecognitionWhenEmpty(fnum, tp) == tp = <<>>

\* line 150 without the recovery path: the cadence alone
RecognitionOnCadence(fnum, tp) == fnum % detect_skip = 0

\* line 150
RecognitionFrame(fnum, tp) == fnum % detect_skip = 0 \/ tp = <<>>

\* lines 134-150: a frame is read, detected on and handed to update_trackers;
\* limit: the number of frames the source delivers
ReadFrameUpTo(limit) ==
    /\ UNCHANGED fn
    /\ pc = "loop"
    /\ frame_num < limit
    /\ \E raw \in RawDetections :
          LET dets == detect_faces(raw)
              tp == update_trackers(tracked_people, frame_num + 1, dets)
          IN  /\ frame_num' = frame_num + 1
              /\ detections' = dets
              /\ tracked_people' = tp
              /\ db_calls' = update_trackers_calls(tracked_people, dets)
              /\ people' = ApplyLastSeen(people, update_trackers_calls(tracked_people, dets),
                                         1, <<frame_num + 1, 0>>)
              /\ IF RecognitionFrame(frame_num + 1, tp) /\ dets # <<>>
                 THEN pc' = "resolve" /\ idx' = 1
                 ELSE pc' = "exits" /\ idx' = 0
    /\ UNCHANGED <<emb, assigned_id, is_new_person, timestamp_now, known_embeddings,
                   face_data, visit_records, counter, exit_thresh, max_frames,
                   store_faults>>

ReadFrame == ReadFrameUpTo(MaxStreamFrames)

\* line 214 testing the wrong way round
FreshPresenceNever(tp, person_id) == person_id \in TrackedIds(tp)

\* line 214 dropped: every resolution logs an entry
FreshPresenceAlways(tp, person_id) == TRUE

\* line 214
FreshPresence(tp, person_id) == person_id \notin TrackedIds(tp)

\* leaving the for loop at the first iteration that ends
ContinueBreaks(i, n) == "exits"

\* line 151: where the for loop over n detections goes after iteration i
Continue(i, n) == IF i = n THEN "exits" ELSE "resolve"

\* lines 151-238: one iteration of the for loop over the frame's detections.
\* embs: the embeddings the faces of the stream can yield;
\* e: what extract_embedding returns; F: the persistence calls that raise;
\* u: the value of uuid4().hex[:8] if the fallback identifier is used.
ResolveWith(embs) ==
    /\ UNCHANGED fn
    /\ pc = "resolve"
    /\ \E e \in embs \cup {None}, F \in FaultSets(store_faults), u \in 1..NumUuids :
          LET det == detections[idx]
              bbox == Box(det)
              conf == det[5]
              crop == Crop(frame_num, bbox)
              now == <<frame_num, idx>>
              early == conf < conf_thresh \/ CropEmpty(crop)
              skipped == early \/ e = None
              current_match == PositionMatch(tracked_people, bbox)
              by_position == current_match # None
              fbm == find_best_match(e, known_embeddings)
              by_embedding == ~by_position /\ EmbeddingMatch(fbm[1], fbm[2])
              is_new == ~by_position /\ ~by_embedding
              ts == IF by_position THEN timestamp_now ELSE now
              unbound == ts = None
              escaped == Propagating(F) # {}
              mint_ok == "counter" \notin F /\ counter # <<>>
              minted == IF mint_ok THEN <<"person", counter[1] + 1>> ELSE <<"person_", u>>
              assigned == IF by_position THEN current_match
                             ELSE IF by_embedding THEN fbm[1] ELSE minted
              people_try == is_new /\ "people_insert" \notin F
              people_ok == people_try /\ assigned \notin PersonIds(people)
              face_ok == people_ok /\ "face_insert" \notin F
              people1 == IF people_ok THEN people \cup {PersonDoc(assigned, ts)}
                         ELSE people
              face1 == IF face_ok THEN Append(face_data, FaceDoc(assigned, e, ts))
                       ELSE face_data
              known1 == IF is_new THEN Append(known_embeddings, <<assigned, e>>)
                        ELSE known_embeddings
              fresh == FreshPresence(tracked_people, assigned)
              visit1 == IF fresh /\ "visit" \notin F
                        THEN Append(visit_records,
                                    VisitRecord(assigned, "entry", ts,
                                                SavedPath("entries", crop)))
                        ELSE visit_records
              store == /\ ~is_new
                       /\ should_store_embedding(face1, assigned, e, "hist_read" \in F)
              insert_try == store /\ ~unbound
              insert_ok == insert_try /\ "emb_insert" \notin F
              face2 == IF insert_ok THEN Append(face1, FaceDoc(assigned, e, ts))
                       ELSE face1
              known2 == IF insert_ok THEN Append(known1, <<assigned, e>>) ELSE known1
              people2 == IF "last_seen" \in F THEN people1
                         ELSE UpdateLastSeen(people1, assigned, ts)
              consulted == (IF is_new THEN {"counter", "people_insert"} ELSE {})
                           \cup (IF people_ok THEN {"face_insert"} ELSE {})
                           \cup (IF fresh THEN {"visit"} ELSE {})
                           \cup (IF ~is_new THEN {"hist_read"} ELSE {})
                           \cup (IF insert_try THEN {"emb_insert"} ELSE {})
                           \cup (IF ~unbound THEN {"last_seen"} ELSE {})
              calls == (IF ~by_position
                        THEN <<MatchCall(fbm)>> ELSE <<>>)
                       \o (IF is_new
                           THEN <<Call("get_next_person_id", assigned, ""),
                                  Call("register_person", assigned, "")>>
                           ELSE <<>>)
                       \o (IF fresh THEN <<Call("save_visit_record", assigned, "entry")>>
                           ELSE <<>>)
                       \o (IF ~is_new
                           THEN <<Call("should_store_embedding", assigned, "")>>
                           ELSE <<>>)
                       \o (IF insert_try THEN <<Call("insert_face_data", assigned, "")>>
                           ELSE <<>>)
                       \o (IF ~unbound THEN <<Call("update_last_seen", assigned, "")>>
                           ELSE <<>>)
              next_pc == Continue(idx, Len(detections))
          IN  IF skipped
              THEN /\ F = {} /\ u = 1
                   /\ pc' = next_pc
                   /\ idx' = idx + 1
                   /\ db_calls' = <<>>
                   /\ emb' = IF early THEN emb ELSE None
                   /\ UNCHANGED <<assigned_id, is_new_person, timestamp_now,
                                  known_embeddings, tracked_people, people, face_data,
                                  visit_records, counter, store_faults>>
              ELSE /\ F \subseteq consulted
                   /\ (is_new /\ ~mint_ok) \/ u = 1
                   /\ store_faults' = store_faults - Cardinality(F)
                   /\ emb' = e
                   /\ assigned_id' = assigned
                   /\ is_new_person' = is_new
                   /\ timestamp_now' = ts
                   /\ counter' = IF is_new /\ mint_ok THEN <<counter[1] + 1>>
                                 ELSE counter
                   /\ visit_records' = visit1
                   /\ face_data' = face2
                   /\ known_embeddings' = known2
                   /\ db_calls' = calls
                   /\ IF unbound \/ escaped
                      THEN \* line 237 reads the unbound local (UnboundLocalError),
                           \* or an exception escaped: process_video is left
                           /\ pc' = "crashed"
                           /\ UNCHANGED <<idx, tracked_people, people>>
                      ELSE /\ people' = people2
                           /\ tracked_people' = register_face(tracked_people, assigned,
                                                     bbox, crop, conf, ts, frame_num)
                           /\ pc' = next_pc
                           /\ idx' = idx + 1
    /\ UNCHANGED <<frame_num, detections, exit_thresh, max_frames>>

\* the faces of the stream yield the embeddings VecA and VecB
ResolveDetection == ResolveWith(Embeddings)

\* handle_exits that forgets to pop the exited people
handle_exits_keep(thresh) ==
    LET n == Len(tracked_people)
        due == [i \in 1..n |-> ExitDue(tracked_people[i], frame_num, thresh)]
        leaving == SelectIdx(tracked_people, due, 1)
        ts == <<frame_num + 1, 0>>
        rec(t) == VisitRecord(t.person_id, "exit", ts,
                              IF t.last_crop # None THEN SavedPath("exits", t.last_crop)
                              ELSE None)
    IN  \E F \in SUBSET (1..Len(leaving)) :
          /\ Cardinality(F) <= store_faults
          /\ store_faults' = store_faults - Cardinality(F)
          /\ visit_records' = visit_records \o
                 SelectIdx([i \in 1..Len(leaving) |-> rec(leaving[i])],
                           [i \in 1..Len(leaving) |-> i \notin F], 1)
          /\ db_calls' = [i \in 1..Len(leaving) |->
                             Call("save_visit_record", leaving[i].person_id, "exit")]
          /\ tracked_people' = tracked_people

\* handle_exits(frame_num, thresh): the exit records and the pruned tracked set
handle_exits(thresh) ==
    LET n == Len(tracked_people)
        due == [i \in 1..n |-> ExitDue(tracked_people[i], frame_num, thresh)]
        leaving == SelectIdx(tracked_people, due, 1)
        ts == <<frame_num + 1, 0>>
        rec(t) == VisitRecord(t.person_id, "exit", ts,
                              IF t.last_crop # None THEN SavedPath("exits", t.last_crop)
                              ELSE None)
    IN  \E F \in SUBSET (1..Len(leaving)) :
          /\ Cardinality(F) <= store_faults
          /\ store_faults' = store_faults - Cardinality(F)
          /\ visit_records' = visit_records \o
                 SelectIdx([i \in 1..Len(leaving) |-> rec(leaving[i])],
                           [i \in 1..Len(leaving) |-> i \notin F], 1)
          /\ db_calls' = [i \in 1..Len(leaving) |->
                             Call("save_visit_record", leaving[i].person_id, "exit")]
          /\ tracked_people' = SelectIdx(tracked_people, [i \in 1..n |-> ~due[i]], 1)

\* a quit signal that returns from process_video at once
AfterFrameQuitReturns(should_quit, mf, fnum) ==
    IF should_quit THEN "release"
    ELSE IF mf # 0 /\ fnum >= mf THEN "final"
    ELSE "loop"

\* lines 247-259: both breaks lead to the code after the loop (line 261)
AfterFrame(should_quit, mf, fnum) ==
    IF should_quit THEN "final"
    ELSE IF mf # 0 /\ fnum >= mf THEN "final"
    ELSE "loop"

\* lines 240-259: the frame's exit check, then the ways on from it
HandleExits ==
    /\ UNCHANGED fn
    /\ pc = "exits"
    /\ handle_exits(exit_thresh)
    /\ \E should_quit \in BOOLEAN : pc' = AfterFrame(should_quit, max_frames, frame_num)
    /\ UNCHANGED <<frame_num, detections, idx, emb, assigned_id, is_new_person,
                   timestamp_now, known_embeddings, people,
                   face_data, counter, exit_thresh, max_frames>>

\* line 262: the forced exit pass
FinalExits ==
    /\ UNCHANGED fn
    /\ pc = "final"
    /\ handle_exits(0)
    /\ pc' = "release"
    /\ UNCHANGED <<frame_num, detections, idx, emb, assigned_id, is_new_person,
                   timestamp_now, known_embeddings, people,
                   face_data, counter, exit_thresh, max_frames>>

\* lines 264-274
Release ==
    /\ UNCHANGED fn
    /\ pc = "release"
    /\ pc' = "done"
    /\ db_calls' = <<>>
    /\ UNCHANGED <<frame_num, detections, idx, emb, assigned_id, is_new_person,
                   timestamp_now, known_embeddings,
                   tracked_people, people, face_data, visit_records, counter,
                   exit_thresh, max_frames, store_faults>>

Next ==
    \/ Start
    \/ OpenFails
    \/ EndOfStream
    \/ ReadFrame
    \/ ResolveDetection
    \/ HandleExits
    \/ FinalExits
    \/ Release

Spec == Init /\ [][Next]_vars

SpecFaulty == InitFaulty /\ [][Next]_vars

\* ---------------------------------------------------------------- gallery functions
\* cosine_similarity applied to every pair of small integer vectors
CosineVectors == {<<x, y, z>> : x \in {-1, 0, 1}, y \in {-1, 0, 1}, z \in {0, 1}}

\* no video run in progress: only the gallery fd is populated
Quiescent(p, fd) ==
    /\ pc = p
    /\ frame_num = 0
    /\ detections = <<>>
    /\ idx = 0
    /\ emb = None
    /\ assigned_id = None
    /\ is_new_person = FALSE
    /\ timestamp_now = None
    /\ known_embeddings = <<>>
    /\ tracked_people = <<>>
    /\ people = {}
    /\ face_data = fd
    /\ visit_records = <<>>
    /\ counter = <<0>>
    /\ exit_thresh = 0
    /\ max_frames = 0
    /\ store_faults = 0
    /\ db_calls = <<>>

InitCosine ==
    /\ Quiescent("cosine", <<>>)
    /\ \E u \in CosineVectors, v \in CosineVectors :
          fn = [NoCall EXCEPT !.a = u, !.b = v]

CosineSimilarity ==
    /\ pc = "cosine"
    /\ fn.op = "none"
    /\ fn' = [fn EXCEPT !.op = "cosine_similarity",
                        !.sim = cosine_similarity(fn.a, fn.b),
                        !.sim_utils = utils_cosine_similarity(fn.a, fn.b)]
    /\ UNCHANGED <<pc, frame_num, detections, idx, emb, assigned_id, is_new_person,
                   timestamp_now, known_embeddings, tracked_people, people, face_data,
                   visit_records, counter, exit_thresh, max_frames, store_faults,
                   db_calls>>

SpecCosine == InitCosine /\ [][CosineSimilarity]_vars

\* should_store_embedding applied to stored histories of one person
GalleryPerson == <<"person", 1>>
OtherPerson == <<"person", 2>>
QueryVectors == {<<4, 3, 0>>, <<3, 4, 0>>}

InitGallery ==
    /\ \E fd \in {<<>>, <<FaceDoc(OtherPerson, VecA, <<0, 0>>)>>} :
          Quiescent("gallery", fd)
    /\ fn = NoCall

\* face_data.insert_one of lines 227-231, at a later time than every stored one
GalleryInsert ==
    /\ pc = "gallery"
    /\ Cardinality({i \in 1..Len(face_data) :
                      face_data[i].person_id = GalleryPerson}) < MaxHistory
    /\ \E v \in Embeddings :
          face_data' = Append(face_data,
                              FaceDoc(GalleryPerson, v, <<Len(face_data) + 1, 0>>))
    /\ fn' = NoCall
    /\ UNCHANGED <<pc, frame_num, detections, idx, emb, assigned_id, is_new_person,
                   timestamp_now, known_embeddings, tracked_people, people,
                   visit_records, counter, exit_thresh, max_frames, store_faults,
                   db_calls>>

GalleryCheck ==
    /\ pc = "gallery"
    /\ \E p \in {GalleryPerson, OtherPerson}, v \in QueryVectors :
          fn' = [NoCall EXCEPT !.op = "should_store_embedding",
                               !.person_id = p,
                               !.a = v,
                               !.retain = should_store_embedding(face_data, p, v, FALSE)]
    /\ UNCHANGED <<pc, frame_num, detections, idx, emb, assigned_id, is_new_person,
                   timestamp_now, known_embeddings, tracked_people, people, face_data,
                   visit_records, counter, exit_thresh, max_frames, store_faults,
                   db_calls>>

NextGallery ==
    \/ GalleryInsert
    \/ GalleryCheck

SpecGallery == InitGallery /\ [][NextGallery]_vars

\* ---------------------------------------------------------------- a three-frame stream
\* one face at (100,100,50,50), then at (105,102,50,50), then an empty frame
ScenarioFrames == << << <<100, 100, 50, 50, 9>> >>,
                     << <<105, 102, 50, 50, 9>> >>,
                     << >> >>

\* the run is bounded by the end of the stream or by max_frames
InitScenario == \E m \in {0, Len(ScenarioFrames)} : InitWith({0}, 0, m)

\* cap.read() and detect_faces deliver the frames of the stream in order
ScenarioRead ==
    /\ ReadFrame
    /\ frame_num' <= Len(ScenarioFrames)
    /\ detections' = ScenarioFrames[frame_num']

\* extract_embedding finds the face of frame 1
ScenarioResolve ==
    /\ ResolveDetection
    /\ frame_num = 1 => emb' # None

NextScenario ==
    \/ Start
    \/ ScenarioRead
    \/ ScenarioResolve
    \/ HandleExits
    \/ EndOfStream
    \/ FinalExits
    \/ Release

SpecScenario == InitScenario /\ [][NextScenario]_vars

\* ---------------------------------------------------------------- one face per frame
\* embeddings at cosine similarity 1, 1/sqrt(2), 1/2, 0, -1/2, -1/sqrt(2), -1
MatchVectors == {<<1, 0, 0>>, <<-1, 0, 0>>, <<1, 1, 0>>, <<1, 0, 1>>}

\* where the one face of a frame can be: too far apart for spatial assignment
MatchBoxes == {<<50, 100, 50, 50>>, <<150, 100, 50, 50>>}

InitMatch == InitWith({0}, 0, MaxStreamFrames)

MatchRead ==
    /\ ReadFrame
    /\ Len(detections') <= 1
    /\ \A i \in 1..Len(detections') : Box(detections'[i]) \in MatchBoxes

MatchResolve == ResolveWith(MatchVectors)

NextMatch ==
    \/ Start
    \/ MatchRead
    \/ MatchResolve
    \/ HandleExits
    \/ EndOfStream
    \/ FinalExits
    \/ Release

SpecMatch == InitMatch /\ [][NextMatch]_vars

\* ---------------------------------------------------------------- cadence
\* a stream of CadenceFrames frames with at most one face per frame, at one of
\* two places too far apart for spatial assignment; people stay tracked for
\* one frame of absence
InitCadence == InitWith({1}, 0, CadenceFrames)

CadenceRead ==
    /\ ReadFrameUpTo(CadenceFrames)
    /\ Len(detections') <= 1
    /\ \A i \in 1..Len(detections') : Box(detections'[i]) \in MatchBoxes

NextCadence ==
    \/ Start
    \/ CadenceRead
    \/ ResolveDetection
    \/ HandleExits
    \/ EndOfStream
    \/ FinalExits
    \/ Release

SpecCadence == InitCadence /\ [][NextCadence]_vars

\* ---------------------------------------------------------------- find_best_match
\* find_best_match applied to in-memory galleries of two people
InitBestMatch ==
    /\ Quiescent("match", <<>>)
    /\ fn = NoCall

\* known_embeddings.append of lines 210 and 232
BestMatchAppend ==
    /\ pc = "match"
    /\ Len(known_embeddings) < MaxGallery
    /\ \E p \in {GalleryPerson, OtherPerson}, v \in MatchVectors :
          known_embeddings' = Append(known_embeddings, <<p, v>>)
    /\ fn' = NoCall
    /\ UNCHANGED <<pc, frame_num, detections, idx, emb, assigned_id, is_new_person,
                   timestamp_now, tracked_people, people, face_data, visit_records,
                   counter, exit_thresh, max_frames, store_faults, db_calls>>

BestMatchQuery ==
    /\ pc = "match"
    /\ \E v \in MatchVectors :
          LET r == find_best_match(v, known_embeddings)
          IN  fn' = [NoCall EXCEPT !.op = "find_best_match",
                                   !.a = v,
                                   !.person_id = r[1],
                                   !.sim = r[2],
                                   !.second_best_sim = r[3]]
    /\ UNCHANGED <<pc, frame_num, detections, idx, emb, assigned_id, is_new_person,
                   timestamp_now, known_embeddings, tracked_people, people, face_data,
                   visit_records, counter, exit_thresh, max_frames, store_faults,
                   db_calls>>

NextBestMatch ==
    \/ BestMatchAppend
    \/ BestMatchQuery

SpecBestMatch == InitBestMatch /\ [][NextBestMatch]_vars

\* ---------------------------------------------------------------- get_next_person_id
\* two runs of process_video share the store and call get_next_person_id in
\* any order; db_calls is the log of the calls with the identifier each one
\* returned and the run it returned it to
Runs == {"run1", "run2"}

\* find_one_and_update handing back the document as it was before the $inc
ReturnedDocumentBefore(before, after) == before

\* return_document=True: find_one_and_update hands back the updated document
ReturnedDocument(before, after) == after

\* get_next_person_id on the counter document c: <<identifier, counter after>>.
\* The $inc and the read of the result are one find_one_and_update command,
\* which the store applies to the document as a whole; without a document, or
\* when the command raises (update_fails), the except branch returns the
\* fallback built from u and the counter is as before.
get_next_person_id(c, update_fails, u) ==
    IF c = <<>> \/ update_fails THEN <<<<"person_", u>>, c>>
    ELSE LET after == <<c[1] + 1>>
         IN  <<<<"person", ReturnedDocument(c, after)[1]>>, after>>

InitMint ==
    /\ pc = "mint"
    /\ frame_num = 0
    /\ detections = <<>>
    /\ idx = 0
    /\ emb = None
    /\ assigned_id = None
    /\ is_new_person = FALSE
    /\ timestamp_now = None
    /\ known_embeddings = <<>>
    /\ tracked_people = <<>>
    /\ people = {}
    /\ face_data = <<>>
    /\ visit_records = <<>>
    /\ counter \in {<<>>, <<0>>}
    /\ exit_thresh = 0
    /\ max_frames = 0
    /\ store_faults = MaxFaults
    /\ db_calls = <<>>
    /\ fn = NoCall

\* one of the runs calls get_next_person_id
Mint ==
    /\ pc = "mint"
    /\ Len(db_calls) < MaxMints
    /\ \E run \in Runs, update_fails \in BOOLEAN, u \in 1..NumUuids :
          LET r == get_next_person_id(counter, update_fails, u)
          IN  /\ update_fails => store_faults > 0 /\ counter # <<>>
              /\ store_faults' = IF update_fails THEN store_faults - 1 ELSE store_faults
              /\ counter' = r[2]
              /\ db_calls' = Append(db_calls, Call("get_next_person_id", r[1], run))
    /\ UNCHANGED <<pc, frame_num, detections, idx, emb, assigned_id, is_new_person,
                   timestamp_now, known_embeddings, tracked_people, people, face_data,
                   visit_records, exit_thresh, max_frames, fn>>

NextMint == Mint

SpecMint == InitMint /\ [][NextMint]_vars

\* ---------------------------------------------------------------- properties
CountCalls(calls, op, person_id, arg) ==
    Cardinality({i \in 1..Len(calls) : calls[i] = Call(op, person_id, arg)})

CountOp(calls, op) == Cardinality({i \in 1..Len(calls) : calls[i].op = op})

CountRecords(vr, person_id, action) ==
    Cardinality({i \in 1..Len(vr) : vr[i].person_id = person_id /\ vr[i].action = action})

\* a step that runs handle_exits, and the threshold it runs with
ExitsStep == pc \in {"exits", "final"}
StepThresh == IF pc = "exits" THEN exit_thresh ELSE 0

\* a step that resolves the detection at idx (the iteration is not skipped)
ResolvedStep == pc = "resolve" /\ db_calls' # <<>>
StepBox == Box(detections[idx])

\* C1: whenever handle_exits runs, a tracked person whose last match lies more
\* than the threshold behind the current frame gets exactly one exit record and
\* is gone from the tracked set after that call; every other tracked person
\* (matched within the threshold) gets no exit record and stays tracked.
C1_ExitAfterThreshold ==
    [][ExitsStep =>
         \A i \in 1..Len(tracked_people) :
            LET t == tracked_people[i]
                id == t.person_id
            IN  IF frame_num - t.last_seen_frame > StepThresh
                THEN /\ CountCalls(db_calls', "save_visit_record", id, "exit") = 1
                     /\ CountRecords(visit_records', id, "exit")
                           = CountRecords(visit_records, id, "exit") + 1
                     /\ id \notin TrackedIds(tracked_people')
                ELSE /\ CountCalls(db_calls', "save_visit_record", id, "exit") = 0
                     /\ CountRecords(visit_records', id, "exit")
                           = CountRecords(visit_records, id, "exit")
                     /\ id \in TrackedIds(tracked_people')]_vars

\* the frame's exit check with threshold 1 has just logged an exit while
\* another person, matched within the threshold, stays tracked
C1_Witness ==
    /\ pc = "final"
    /\ exit_thresh = 1
    /\ CountOp(db_calls, "save_visit_record") = 1
    /\ db_calls[1].arg = "exit"
    /\ tracked_people # <<>>

\* C2: after the final handle_exits call (threshold 0) the tracked set is empty.
C2_FinalPassEmptiesTracked ==
    pc \in {"release", "done"} => tracked_people = <<>>

\* C3 (as claimed): a resolved detection whose centre is within 50 px of the
\* last known centre of some tracked person is given the id of such a person.
C3_LastKnownPrecedence ==
    [][ResolvedStep =>
         LET near == {i \in 1..Len(tracked_people) :
                        /\ tracked_people[i].last_known_bbox # None
                        /\ Within(tracked_people[i].last_known_bbox, StepBox, CarryRadius)}
         IN  near # {} => \E i \in near : assigned_id' = tracked_people[i].person_id]_vars

\* C3 (amended): a resolved detection whose centre is within 50 px of the centre
\* of the current-frame box of some tracked person is given the id of the first
\* such person in tracked-set order, without a gallery query or a new identifier.
C3_CurrentBoxPrecedence ==
    [][ResolvedStep =>
         LET near == {i \in 1..Len(tracked_people) :
                        /\ tracked_people[i].bbox # None
                        /\ Within(tracked_people[i].bbox, StepBox, CarryRadius)}
         IN  near # {} =>
                LET first == CHOOSE i \in near : \A j \in near : i <= j
                IN  /\ assigned_id' = tracked_people[first].person_id
                    /\ ~is_new_person'
                    /\ CountOp(db_calls', "find_best_match") = 0
                    /\ CountOp(db_calls', "get_next_person_id") = 0
                    /\ counter' = counter]_vars

\* a detection has just been resolved by position while two people have a
\* current box within 50 px of it
C3_Witness ==
    /\ pc \in {"resolve", "exits"}
    /\ db_calls # <<>>
    /\ db_calls[1].op = "should_store_embedding"
    /\ Cardinality({i \in 1..Len(tracked_people) :
                      /\ tracked_people[i].bbox # None
                      /\ Within(tracked_people[i].bbox, Box(detections[idx - 1]),
                                CarryRadius)}) = 2

\* C4: with an empty gallery the first resolved detection mints a new
\* identifier from the counter and produces exactly one entry record, for it.
C4_FirstDetectionMints ==
    [][ResolvedStep /\ known_embeddings = <<>> =>
         /\ is_new_person'
         /\ assigned_id' = <<"person", counter[1] + 1>>
         /\ counter' = <<counter[1] + 1>>
         /\ assigned_id' \notin PersonIds(people) \cup TrackedIds(tracked_people)
         /\ CountCalls(db_calls', "get_next_person_id", assigned_id', "") = 1
         /\ CountOp(db_calls', "get_next_person_id") = 1
         /\ CountCalls(db_calls', "save_visit_record", assigned_id', "entry") = 1
         /\ CountOp(db_calls', "save_visit_record") = 1
         /\ Len(visit_records') = Len(visit_records) + 1
         /\ visit_records'[Len(visit_records')].person_id = assigned_id'
         /\ visit_records'[Len(visit_records')].action = "entry"
         /\ known_embeddings' = <<<<assigned_id', emb'>>>>]_vars

\* the second detection of the first frame was the first to qualify (the first
\* one had no embedding) and was registered as a new person
C4_Witness ==
    /\ frame_num = 1
    /\ idx = 3
    /\ is_new_person
    /\ Len(known_embeddings) = 1
    /\ Len(visit_records) = 1
    /\ visit_records[1] = VisitRecord(<<"person", 1>>, "entry", <<1, 2>>,
                                      SavedPath("entries", Crop(1, Box(detections[2]))))
    /\ TrackedIds(tracked_people) = {<<"person", 1>>}

\* the best gallery similarity of vec is attained by an entry of person_id, is at
\* least the similarity threshold, and no other person's entry reaches it
BestIs(vec, known, person_id) ==
    \E i \in 1..Len(known) :
       /\ known[i][1] = person_id
       /\ SimGE(cosine_similarity(vec, known[i][2]), sim_thresh)
       /\ \A j \in 1..Len(known) :
             known[j][1] # person_id =>
                SimLT(cosine_similarity(vec, known[j][2]),
                      cosine_similarity(vec, known[i][2]))

\* C5: a person P who has exited (exit record written, no longer tracked, still
\* in the gallery) and whose gallery entry is the best match, at or above the
\* threshold, of a detection with no tracked person within 50 px, is resolved
\* as P again: an entry record for P, no new identifier.
C5_ReEntry ==
    [][ResolvedStep =>
         \A i \in 1..Len(known_embeddings) :
            LET P == known_embeddings[i][1]
            IN  (/\ P \notin TrackedIds(tracked_people)
                 /\ CountRecords(visit_records, P, "exit") > 0
                 /\ \A k \in 1..Len(tracked_people) :
                       ~Within(tracked_people[k].last_known_bbox, StepBox, CarryRadius)
                 /\ BestIs(emb', known_embeddings, P))
                => /\ assigned_id' = P
                   /\ ~is_new_person'
                   /\ CountOp(db_calls', "get_next_person_id") = 0
                   /\ counter' = counter
                   /\ CountCalls(db_calls', "save_visit_record", P, "entry") = 1
                   /\ CountRecords(visit_records', P, "entry")
                         = CountRecords(visit_records, P, "entry") + 1
                   /\ P \in TrackedIds(tracked_people')]_vars

\* the person just resolved through the gallery had an exit record before and
\* has a new entry record now
C5_Witness ==
    LET n == Len(visit_records)
    IN  /\ db_calls # <<>>
        /\ db_calls[1].op = "find_best_match"
        /\ ~is_new_person
        /\ CountOp(db_calls, "get_next_person_id") = 0
        /\ n >= 3
        /\ visit_records[n].person_id = assigned_id
        /\ visit_records[n].action = "entry"
        /\ visit_records[n - 1].person_id = assigned_id
        /\ visit_records[n - 1].action = "exit"
        /\ assigned_id \in TrackedIds(tracked_people)

\* C6: a resolution emits an entry record for the resolved id exactly when that
\* id is not in the tracked set at that moment, and never more than one; a
\* skipped detection emits none.
C6_EntryIffNotTracked ==
    [][pc = "resolve" =>
         IF db_calls' = <<>> THEN visit_records' = visit_records
         ELSE LET n == IF assigned_id' \in TrackedIds(tracked_people) THEN 0 ELSE 1
              IN  /\ CountCalls(db_calls', "save_visit_record", assigned_id', "entry") = n
                  /\ CountOp(db_calls', "save_visit_record") = n
                  /\ Len(visit_records') = Len(visit_records) + n
                  /\ CountRecords(visit_records', assigned_id', "entry")
                        = CountRecords(visit_records, assigned_id', "entry") + n]_vars

\* a detection was resolved through the gallery to a person who was already
\* tracked, a second time in the same frame, and no entry record was written
C6_Witness ==
    /\ pc = "exits"
    /\ idx = 3
    /\ db_calls # <<>>
    /\ db_calls[1].op = "find_best_match"
    /\ ~is_new_person
    /\ CountOp(db_calls, "save_visit_record") = 0
    /\ CountRecords(visit_records, assigned_id, "entry") = 1
    /\ Len(tracked_people) = 1
    /\ tracked_people[1].last_seen_time = <<1, 2>>

RecordsOf(vr, person_id) == SelectSeq(vr, LAMBDA r : r.person_id = person_id)

\* C7: over a reliable store, each person's visit records alternate entry,
\* exit, entry, ... from an entry on, and the person is tracked exactly when
\* the latest of them is an entry.
C7_RecordsAlternate ==
    \A id \in {visit_records[i].person_id : i \in 1..Len(visit_records)}
              \cup TrackedIds(tracked_people) :
       LET rs == RecordsOf(visit_records, id)
       IN  /\ \A i \in 1..Len(rs) :
                rs[i].action = IF i % 2 = 1 THEN "entry" ELSE "exit"
           /\ id \in TrackedIds(tracked_people) <=> Len(rs) % 2 = 1

\* at the end of the run somebody has entered, exited and entered again, and
\* somebody else has entered and exited
C7_Witness ==
    /\ pc = "done"
    /\ \E id \in TrackedIds(tracked_people) : Len(RecordsOf(visit_records, id)) = 3
    /\ \E i \in 1..Len(known_embeddings) :
          /\ known_embeddings[i][1] \notin TrackedIds(tracked_people)
          /\ Len(RecordsOf(visit_records, known_embeddings[i][1])) = 2

\* C8: every tracked person has an embedding in the gallery and a person
\* record with a first-seen fact.
C8_TrackedAreRegistered ==
    \A id \in TrackedIds(tracked_people) :
       /\ \E i \in 1..Len(known_embeddings) : known_embeddings[i][1] = id
       /\ \E p \in people : p.person_id = id /\ p.first_seen # None

\* the positions in fd of the person's n most recently stored embeddings
RecentPositions(fd, person_id, n) ==
    LET own == {i \in 1..Len(fd) : fd[i].person_id = person_id}
    IN  {i \in own : Cardinality({j \in own : j > i}) < n}

OlderPositions(fd, person_id, n) ==
    {i \in 1..Len(fd) : fd[i].person_id = person_id} \ RecentPositions(fd, person_id, n)

SimilarAt(fd, i, vec) ==
    SimGE(cosine_similarity(vec, fd[i].face_vector), diversity_thresh)

IsZeroVector(v) == \A i \in 1..Len(v) : v[i] = 0

\* C10: cosine similarity with a zero vector as either argument is 0, not an
\* error value, whatever the other argument is (DatabaseManager's and utils').
C10_ZeroVectorSimilarity ==
    fn.op = "cosine_similarity" /\ (IsZeroVector(fn.a) \/ IsZeroVector(fn.b)) =>
       /\ fn.sim = SimZero
       /\ fn.sim_utils = SimZero

\* the similarity of the zero vector with itself was computed
C10_Witness ==
    /\ fn.op = "cosine_similarity"
    /\ IsZeroVector(fn.a)
    /\ IsZeroVector(fn.b)
    /\ fn.sim = SimZero

FirstPerson == <<"person", 1>>

\* the frame's detections have been resolved, its exit check is still to run
FrameResolved(f) == frame_num = f /\ pc = "exits"

\* the frame's exit check has run
FrameEnded(f) == frame_num = f /\ pc \in {"loop", "final", "release", "done"}

\* C11: on the three-frame stream with an empty gallery and exit threshold 0,
\* frame 1 yields one new person (one identifier minted, one person record),
\* one entry record and a tracked set of size 1; frame 2 keeps that person at
\* the shifted box with no further identifier and no further entry; frame 3
\* ends with one exit record for that person and an empty tracked set.
C11_ThreeFrameScenario ==
    /\ FrameResolved(1) \/ FrameEnded(1) =>
          /\ counter = <<1>>
          /\ PersonIds(people) = {FirstPerson}
          /\ Len(known_embeddings) = 1
          /\ Len(visit_records) = 1
          /\ visit_records[1].person_id = FirstPerson
          /\ visit_records[1].action = "entry"
          /\ Len(tracked_people) = 1
          /\ tracked_people[1].person_id = FirstPerson
    /\ FrameResolved(2) \/ FrameEnded(2) =>
          /\ counter = <<1>>
          /\ PersonIds(people) = {FirstPerson}
          /\ Len(visit_records) = 1
          /\ Len(tracked_people) = 1
          /\ tracked_people[1].person_id = FirstPerson
          /\ tracked_people[1].last_known_bbox = Box(ScenarioFrames[2][1])
          /\ tracked_people[1].last_seen_frame = 2
    /\ FrameEnded(3) =>
          /\ counter = <<1>>
          /\ tracked_people = <<>>
          /\ Len(visit_records) = 2
          /\ visit_records[2].person_id = FirstPerson
          /\ visit_records[2].action = "exit"

\* the stream has been processed to the end of frame 3 and the person has left
C11_Witness ==
    /\ frame_num = 3
    /\ pc = "loop"
    /\ tracked_people = <<>>
    /\ CountRecords(visit_records, FirstPerson, "entry") = 1
    /\ CountRecords(visit_records, FirstPerson, "exit") = 1

\* the identifiers minted so far in the run: every mint is appended to the
\* in-memory gallery (line 210), which starts empty
MintedIds == {known_embeddings[i][1] : i \in 1..Len(known_embeddings)}

\* a step whose resolution called get_next_person_id
MintStep == pc = "resolve" /\ CountOp(db_calls', "get_next_person_id") = 1

\* C12: no call of get_next_person_id returns an identifier that an earlier
\* call has returned, on the counter path and on the fallback path alike, and
\* a counter-path identifier carries a larger number than every earlier one.
C12_MintedIdsUnique ==
    [][MintStep =>
         /\ assigned_id' \notin MintedIds
         /\ assigned_id'[1] = "person" =>
               \A p \in MintedIds : p[1] = "person" => p[2] < assigned_id'[2]]_vars

\* how often the pair <<person_id, vector>> occurs in the in-memory gallery
\* and how often as a record of the store
CountKnown(known, pair) == Cardinality({i \in 1..Len(known) : known[i] = pair})
CountStored(fd, pair) ==
    Cardinality({j \in 1..Len(fd) : <<fd[j].person_id, fd[j].face_vector>> = pair})

\* C13: the in-memory gallery holds a (personId, embedding) pair only as often
\* as the store holds a record of it: an embedding whose write failed (inside
\* register_person or in the diversity-filter insert) is not in the gallery.
C13_GalleryBackedByStore ==
    \A pair \in Range(known_embeddings) :
       CountKnown(known_embeddings, pair) <= CountStored(face_data, pair)

\* an iteration that ends at line 167: extract_embedding returned None
NoEmbeddingStep == pc = "resolve" /\ emb' = None

\* C14: a detection without an embedding is skipped with no identity side
\* effect: no identifier minted, nothing written to people, face_data or
\* visit_records, no DatabaseManager call at all (so no last-seen update), no
\* gallery entry and no register_face; the for loop goes on to the next
\* detection of the frame, or to the frame's exit check after the last one.
C14_NoEmbeddingSkips ==
    [][NoEmbeddingStep =>
         /\ UNCHANGED <<counter, people, face_data, visit_records,
                        known_embeddings, tracked_people, assigned_id>>
         /\ db_calls' = <<>>
         /\ idx' = idx + 1
         /\ idx < Len(detections) => pc' = "resolve"
         /\ idx = Len(detections) => pc' = "exits"]_vars

\* in a frame with people tracked, the first of two detections was skipped
\* for its missing embedding and the second is about to be processed
C14_Witness ==
    /\ pc = "resolve"
    /\ idx = 2
    /\ emb = None
    /\ tracked_people # <<>>
    /\ db_calls = <<>>

\* C15: when the source cannot be opened, process_video returns with nothing
\* created: no tracked person, no gallery entry, and the store (people,
\* face_data, visit_records, counter) as it was before the call.
C15_AbortCreatesNothing ==
    pc = "aborted" =>
       /\ tracked_people = <<>>
       /\ known_embeddings = <<>>
       /\ people = FreshStore.people
       /\ face_data = FreshStore.face_data
       /\ visit_records = FreshStore.visit_records
       /\ counter = FreshStore.counter

\* a resolution during which a persistence call raised
FaultyResolveStep == pc = "resolve" /\ store_faults' < store_faults

\* C16: a persistence call that fails while a detection is resolved never
\* aborts frame processing: process_video is never left by an exception, the
\* resolution runs to its end (the person is registered for tracking), the for
\* loop goes on to the next detection or, after the last one, to the frame's
\* exit check, from where the exit check and the later frames can run.
C16_FaultsDoNotAbort ==
    /\ [](pc # "crashed")
    /\ [](pc = "exits" => ENABLED HandleExits)
    /\ [][FaultyResolveStep =>
            /\ assigned_id' \in TrackedIds(tracked_people')
            /\ idx' = idx + 1
            /\ idx < Len(detections) => pc' = "resolve"
            /\ idx = Len(detections) => pc' = "exits"]_vars

\* the registration of the first detection's new person failed in the store
\* and the second detection of the frame is about to be processed
C16_Witness ==
    /\ pc = "resolve"
    /\ idx = 2
    /\ CountOp(db_calls, "register_person") = 1
    /\ people = {}
    /\ store_faults < MaxFaults

\* a frame is read for which detect_faces reports nothing
EmptyFrameStep == pc = "loop" /\ frame_num' = frame_num + 1 /\ detections' = <<>>

\* C17: on a frame without detections update_trackers issues one
\* update_last_seen call for every tracked person, whose last_seen in the
\* store becomes the time of that frame, and moves no reference position.
C17_EmptyFrameRefreshesLastSeen ==
    [][EmptyFrameStep =>
         /\ \A p \in TrackedIds(tracked_people) :
               /\ CountCalls(db_calls', "update_last_seen", p, "") = 1
               /\ \A d \in people' : d.person_id = p => d.last_seen = <<frame_num', 0>>
         /\ Len(tracked_people') = Len(tracked_people)
         /\ \A i \in 1..Len(tracked_people) :
               tracked_people'[i].last_known_bbox = tracked_people[i].last_known_bbox]_vars

\* a detection is resolved while a tracked person's current box lies within
\* the carry-over radius of it
CarryOverStep ==
    /\ ResolvedStep
    /\ \E i \in 1..Len(tracked_people) :
          /\ tracked_people[i].bbox # None
          /\ Within(tracked_people[i].bbox, StepBox, CarryRadius)

\* C18 as stated: a carry-over resolution makes no similarity query, no
\* diversity-filter query and no embedding insert, in the store or in memory.
C18_CarryOverLeavesGallery ==
    [][CarryOverStep =>
         /\ CountOp(db_calls', "find_best_match") = 0
         /\ CountOp(db_calls', "should_store_embedding") = 0
         /\ CountOp(db_calls', "insert_face_data") = 0
         /\ UNCHANGED <<face_data, known_embeddings>>]_vars

\* C18 amended: a carry-over resolution makes no similarity query and mints no
\* identifier, but it consults the diversity filter for the reused personId
\* and, exactly when none of that person's 10 most recent stored embeddings is
\* similar to the new one at or above the diversity threshold, inserts the
\* embedding into the store and appends it to the in-memory gallery.
C18_CarryOverConsultsFilter ==
    [][CarryOverStep =>
         /\ CountOp(db_calls', "find_best_match") = 0
         /\ CountOp(db_calls', "get_next_person_id") = 0
         /\ CountCalls(db_calls', "should_store_embedding", assigned_id', "") = 1
         /\ IF \A i \in RecentPositions(face_data, assigned_id', RecentLimit) :
                  ~SimilarAt(face_data, i, emb')
            THEN /\ CountCalls(db_calls', "insert_face_data", assigned_id', "") = 1
                 /\ Len(face_data') = Len(face_data) + 1
                 /\ face_data'[Len(face_data')].person_id = assigned_id'
                 /\ face_data'[Len(face_data')].face_vector = emb'
                 /\ known_embeddings' = Append(known_embeddings, <<assigned_id', emb'>>)
            ELSE /\ CountOp(db_calls', "insert_face_data") = 0
                 /\ UNCHANGED <<face_data, known_embeddings>>]_vars

\* a carry-over resolution has just stored the detection's embedding
C18_Witness ==
    /\ CountOp(db_calls, "update_last_seen") = 1
    /\ CountOp(db_calls, "find_best_match") = 0
    /\ CountOp(db_calls, "insert_face_data") = 1
    /\ Len(face_data) = 2

InLoop == pc \in {"loop", "resolve", "exits"}

\* C19: every way out of the frame loop (end of stream, quit signal, max_frames)
\* leads to the final forced-exit pass; the resources are released only by the
\* step that follows that pass, which has then removed every person not matched
\* in the last frame; the pass runs once: after it the run only ends.
C19_FinalPassBeforeRelease ==
    /\ [][InLoop /\ ~InLoop' => pc' = "final"]_vars
    /\ [][pc = "final" =>
            /\ pc' = "release"
            /\ \A i \in 1..Len(tracked_people) :
                  tracked_people[i].last_seen_frame < frame_num =>
                     /\ tracked_people[i].person_id \notin TrackedIds(tracked_people')
                     /\ CountCalls(db_calls', "save_visit_record",
                                   tracked_people[i].person_id, "exit") = 1]_vars
    /\ [][pc' = "release" => pc = "final"]_vars
    /\ [][pc = "release" => pc' = "done"]_vars
    /\ [][pc' = "done" => pc = "release"]_vars

\* the loop was left before the last frame of the stream, the final pass has
\* written an exit record and the resources are about to be released
C19_Witness ==
    /\ pc = "release"
    /\ frame_num < MaxStreamFrames
    /\ CountOp(db_calls, "save_visit_record") = 1
    /\ tracked_people = <<>>

\* a detection is resolved with no tracked person's current box within the
\* carry-over radius of it
NoCarryOverStep == ResolvedStep /\ ~CarryOverStep

\* the similarity of the new embedding to gallery entry i
SimTo(i) == cosine_similarity(emb', known_embeddings[i][2])

\* the gallery entries of maximal similarity to the new embedding
TopEntries ==
    {i \in 1..Len(known_embeddings) :
        \A j \in 1..Len(known_embeddings) : SimGE(SimTo(i), SimTo(j))}

\* some gallery entry is similar to the new embedding at or above the threshold
ReachesThreshold == \E i \in 1..Len(known_embeddings) : SimGE(SimTo(i), sim_thresh)

\* the detection is given the identity of a best-matching gallery entry
Reidentified ==
    /\ assigned_id' \in {known_embeddings[i][1] : i \in TopEntries}
    /\ ~is_new_person'
    /\ CountOp(db_calls', "get_next_person_id") = 0
    /\ CountOp(db_calls', "register_person") = 0
    /\ counter' = counter
    /\ PersonIds(people') = PersonIds(people)

\* one identifier is minted, the person registered, the embedding is the
\* person's first sample in the store and in the in-memory gallery
MintedAndRegistered ==
    /\ is_new_person'
    /\ CountCalls(db_calls', "get_next_person_id", assigned_id', "") = 1
    /\ CountOp(db_calls', "get_next_person_id") = 1
    /\ CountCalls(db_calls', "register_person", assigned_id', "") = 1
    /\ counter' = <<counter[1] + 1>>
    /\ assigned_id' = <<"person", counter[1] + 1>>
    /\ assigned_id' \notin PersonIds(people)
    /\ PersonIds(people') = PersonIds(people) \cup {assigned_id'}
    /\ \A j \in 1..Len(face_data) : face_data[j].person_id # assigned_id'
    /\ Len(face_data') = Len(face_data) + 1
    /\ face_data'[Len(face_data')].person_id = assigned_id'
    /\ face_data'[Len(face_data')].face_vector = emb'
    /\ known_embeddings' = Append(known_embeddings, <<assigned_id', emb'>>)

\* C20 as stated: without carry-over, find_best_match returns the maximum
\* similarity over the gallery entries and the personId of an entry attaining
\* it; the detection gets that personId iff the maximum is >= the threshold,
\* otherwise one identifier is minted and the person and embedding registered.
C20_BestMatchDecides ==
    [][NoCarryOverStep =>
         /\ known_embeddings # <<>> =>
               \E i \in TopEntries :
                  /\ db_calls'[1].best_sim = SimTo(i)
                  /\ db_calls'[1].best_id = known_embeddings[i][1]
         /\ IF ReachesThreshold THEN Reidentified ELSE MintedAndRegistered]_vars

\* C20 amended: find_best_match returns the maximum similarity, and with it the
\* personId of an entry attaining it when that maximum is above -1; when
\* every entry has similarity exactly -1 (or the gallery is empty) it returns
\* no personId and -1.  The decision is as stated: the best entry's personId
\* iff the maximum is >= the threshold, otherwise a new registered identity.
C20_BestMatchAboveMinusOne ==
    [][NoCarryOverStep =>
         /\ known_embeddings # <<>> =>
               \E i \in TopEntries :
                  /\ db_calls'[1].best_sim = SimTo(i)
                  /\ IF SimGT(SimTo(i), SimMinusOne)
                     THEN db_calls'[1].best_id = known_embeddings[i][1]
                     ELSE db_calls'[1].best_id = None
         /\ known_embeddings = <<>> =>
               db_calls'[1].best_id = None /\ db_calls'[1].best_sim = SimMinusOne
         /\ IF ReachesThreshold THEN Reidentified ELSE MintedAndRegistered]_vars

\* a detection was re-identified at a similarity of exactly the threshold
C20_Witness ==
    /\ db_calls # <<>>
    /\ db_calls[1].op = "find_best_match"
    /\ db_calls[1].best_sim = sim_thresh
    /\ ~is_new_person
    /\ assigned_id = db_calls[1].best_id
    /\ assigned_id \in TrackedIds(tracked_people)

\* the similarity of the queried vector to gallery entry i
QuerySim(i) == cosine_similarity(fn.a, known_embeddings[i][2])

\* the gallery entries of maximal similarity to the queried vector
QueryTop ==
    {i \in 1..Len(known_embeddings) :
        \A j \in 1..Len(known_embeddings) : SimGE(QuerySim(i), QuerySim(j))}

FirstOf(S) == CHOOSE i \in S : \A j \in S : i <= j

\* C21 as stated: when several gallery entries attain the best similarity,
\* find_best_match returns the personId of the first of them in gallery order
\* and a second-best similarity equal to the best; always best >= second best.
C21_TieFavoursFirst ==
    fn.op = "find_best_match" =>
       /\ SimGE(fn.sim, fn.second_best_sim)
       /\ Cardinality(QueryTop) >= 2 =>
             /\ fn.person_id = known_embeddings[FirstOf(QueryTop)][1]
             /\ fn.second_best_sim = fn.sim

\* C21 amended: as stated when the tied best similarity is above -1; when the
\* tied entries (then all entries) have similarity exactly -1, find_best_match
\* returns no personId, with best and second-best similarity both -1.
C21_TieAboveMinusOneFavoursFirst ==
    fn.op = "find_best_match" =>
       /\ SimGE(fn.sim, fn.second_best_sim)
       /\ Cardinality(QueryTop) >= 2 =>
             /\ fn.second_best_sim = fn.sim
             /\ fn.sim = QuerySim(FirstOf(QueryTop))
             /\ IF SimGT(fn.sim, SimMinusOne)
                THEN fn.person_id = known_embeddings[FirstOf(QueryTop)][1]
                ELSE fn.person_id = None

\* two entries of different people tie for the best similarity, the later
\* person's entry is the second of them, and the first one's id was returned
C21_Witness ==
    /\ fn.op = "find_best_match"
    /\ Cardinality(QueryTop) = 2
    /\ \E i \in QueryTop : known_embeddings[i][1] # fn.person_id
    /\ fn.person_id = known_embeddings[FirstOf(QueryTop)][1]
    /\ fn.second_best_sim = fn.sim

\* a frame is read and handed to update_trackers
UpdateTrackersStep == pc = "loop" /\ frame_num' = frame_num + 1

\* update_trackers has just run on the frame's detections
TrackersUpdated == (pc = "resolve" /\ idx = 1) \/ (pc = "exits" /\ idx = 0)

\* the tracks that hold detection d as their current box
Holders(tp, dets, d) == {i \in 1..Len(tp) : tp[i].bbox = Box(dets[d])}

\* C22: after one call of spatial assignment every detection is the current
\* box of at most one track, and every track's current box is absent or one
\* detection of the frame.
C22_AssignmentExclusive ==
    [][UpdateTrackersStep =>
         /\ \A d \in 1..Len(detections') :
               Cardinality(Holders(tracked_people', detections', d)) <= 1
         /\ \A i \in 1..Len(tracked_people') :
               \/ tracked_people'[i].bbox = None
               \/ Cardinality({d \in 1..Len(detections') :
                                 tracked_people'[i].bbox = Box(detections'[d])}) = 1]_vars

\* two tracks were in reach of the frame's only detection: the first took it,
\* the second stays without a current box
C22_Witness ==
    /\ TrackersUpdated
    /\ Len(detections) = 1
    /\ Len(tracked_people) = 2
    /\ tracked_people[1].bbox = Box(detections[1])
    /\ tracked_people[2].bbox = None
    /\ Within(tracked_people[2].last_known_bbox, Box(detections[1]), MatchRadius)

\* the detections consumed by the tracks before track k
ConsumedBefore(tp, dets, k) ==
    {d \in 1..Len(dets) : \E j \in 1..(k - 1) : tp[j].bbox = Box(dets[d])}

\* the detections still free for track k and closer than the radius to ref
Candidates(tp, dets, k, ref) ==
    {d \in 1..Len(dets) \ ConsumedBefore(tp, dets, k) :
        Within(ref, Box(dets[d]), MatchRadius)}

\* the candidate of least distance to ref, the lowest index among equals
Nearest(dets, cand, ref) ==
    CHOOSE d \in cand :
       \A c \in cand :
          \/ Dist2x4(ref, Box(dets[d])) < Dist2x4(ref, Box(dets[c]))
          \/ Dist2x4(ref, Box(dets[d])) = Dist2x4(ref, Box(dets[c])) /\ d <= c

\* C23: spatial assignment serves the tracks in tracked-set order; each takes,
\* among the detections no earlier track has consumed and that lie strictly
\* closer than 100 px to its last known box, the nearest one (the lowest
\* detection index on equal distance), and stays unmatched and unchanged when
\* there is none, whatever a later track would have been closer to.
C23_GreedyPerTrack ==
    [][UpdateTrackersStep /\ detections' # <<>> =>
         /\ Len(tracked_people') = Len(tracked_people)
         /\ \A k \in 1..Len(tracked_people) :
               LET ref == tracked_people[k].last_known_bbox
                   cand == Candidates(tracked_people', detections', k, ref)
                   after == tracked_people'[k]
               IN  IF cand = {}
                   THEN /\ after.bbox = None
                        /\ after.last_known_bbox = ref
                        /\ after.last_seen_frame = tracked_people[k].last_seen_frame
                   ELSE /\ after.bbox = Box(detections'[Nearest(detections', cand, ref)])
                        /\ after.last_known_bbox = after.bbox
                        /\ after.last_seen_frame = frame_num']_vars

\* a person last resolved at (100,100) in frame 1 meets detections at equal
\* distance on both sides in frame 2 and is given the first of them
C23_Witness ==
    /\ TrackersUpdated
    /\ frame_num = 2
    /\ Len(tracked_people) = 1
    /\ tracked_people[1].last_crop = Crop(1, <<100, 100, 50, 50>>)
    /\ Len(detections) = 2
    /\ Box(detections[1]) = <<50, 100, 50, 50>>
    /\ Box(detections[2]) = <<150, 100, 50, 50>>
    /\ tracked_people[1].bbox = Box(detections[1])

\* the entry records of the visit log
Entries(vr) == SelectSeq(vr, LAMBDA r : r.action = "entry")

\* update_trackers has just run and line 150 then lets resolution run
OnCadenceStep ==
    /\ UpdateTrackersStep
    /\ (frame_num' % detect_skip = 0 \/ tracked_people' = <<>>)

\* a step of a frame on which line 150 does not let resolution run: reading
\* the frame, and that frame's exit check
OffCadenceStep ==
    \/ /\ UpdateTrackersStep
       /\ frame_num' % detect_skip # 0
       /\ tracked_people' # <<>>
    \/ /\ pc = "exits"
       /\ idx = 0
       /\ frame_num % detect_skip # 0
       /\ tracked_people # <<>>

\* the for loop over the frame's detections is entered exactly on the frames
\* whose index is a multiple of the cadence or whose tracked set is empty
\* after update_trackers
ResolutionIffOnCadence ==
    [][UpdateTrackersStep =>
          (pc' = "resolve" <=> OnCadenceStep /\ detections' # <<>>)]_vars

\* C24 as stated: resolution runs exactly on the frames whose index is a
\* multiple of the cadence or whose tracked set is empty after the spatial
\* update, and on every other frame no identifier is minted, neither the
\* gallery nor the visit log is written and the tracked set gains no member.
C24_OffCadenceWritesNothing ==
    /\ ResolutionIffOnCadence
    /\ [][OffCadenceStep =>
             /\ pc' # "resolve"
             /\ counter' = counter
             /\ known_embeddings' = known_embeddings
             /\ face_data' = face_data
             /\ TrackedIds(tracked_people') \subseteq TrackedIds(tracked_people)
             /\ visit_records' = visit_records]_vars

\* C24 amended: resolution runs exactly on those frames, and on every other
\* frame no identifier is minted, the gallery is not written, no entry record
\* is written and the tracked set gains no member; the frame's exit check
\* still runs and may append exit records to the visit log.
C24_OffCadenceResolvesNothing ==
    /\ ResolutionIffOnCadence
    /\ [][OffCadenceStep =>
             /\ pc' # "resolve"
             /\ counter' = counter
             /\ known_embeddings' = known_embeddings
             /\ face_data' = face_data
             /\ TrackedIds(tracked_people') \subseteq TrackedIds(tracked_people)
             /\ Entries(visit_records') = Entries(visit_records)]_vars

\* an off-cadence frame with somebody tracked shows a face that no track
\* holds; the frame goes to its exit check without resolving it
C24_Witness ==
    /\ pc = "exits"
    /\ idx = 0
    /\ frame_num % detect_skip # 0
    /\ tracked_people # <<>>
    /\ \E d \in 1..Len(detections) : Holders(tracked_people, detections, d) = {}

\* where a tracked person is: the current box, the last known one without it
PositionOf(t) == IF t.bbox # None THEN t.bbox ELSE t.last_known_bbox

\* the tracked people that have a current box within the carry-over radius of
\* the detection being resolved
CurrentNear ==
    {i \in 1..Len(tracked_people) :
        /\ tracked_people[i].bbox # None
        /\ Within(tracked_people[i].bbox, StepBox, CarryRadius)}

\* C25 as stated: the carry-over check looks at every tracked person, matched
\* in this frame or not, and a resolved detection with several of them within
\* 50 px is given the id of a nearest one.
C25_CarryOverNearestOfAll ==
    [][ResolvedStep =>
         LET near == {i \in 1..Len(tracked_people) :
                        Within(PositionOf(tracked_people[i]), StepBox, CarryRadius)}
         IN  near # {} =>
               \E i \in near :
                  /\ assigned_id' = tracked_people[i].person_id
                  /\ \A j \in near :
                        Dist2x4(PositionOf(tracked_people[i]), StepBox)
                           <= Dist2x4(PositionOf(tracked_people[j]), StepBox)]_vars

\* C25 amended: the carry-over check looks only at the tracked people that
\* have a current box in this frame; a detection is resolved by it exactly
\* when one of them is within 50 px, and with several of them it reuses the
\* id of the first in tracked-set order, nearest or not.
C25_CarryOverFirstOfCurrent ==
    [][ResolvedStep =>
         /\ CountOp(db_calls', "find_best_match") = 0 <=> CurrentNear # {}
         /\ CurrentNear # {} =>
               assigned_id' =
                  tracked_people[CHOOSE i \in CurrentNear :
                                    \A j \in CurrentNear : i <= j].person_id]_vars

\* a detection held by the second tracked person has just been resolved by
\* carry-over to the first one, whose box was 5 px away: both hold it now
C25_Witness ==
    /\ pc \in {"resolve", "exits"}
    /\ idx > 1
    /\ db_calls # <<>>
    /\ db_calls[1].op = "should_store_embedding"
    /\ Len(tracked_people) = 2
    /\ assigned_id = tracked_people[1].person_id
    /\ Holders(tracked_people, detections, idx - 1) = {1, 2}

\* the first tracked person, in tracked-set order, with a current box within
\* the carry-over radius of the detection being resolved
FirstCurrentNear == CHOOSE i \in CurrentNear : \A j \in CurrentNear : i <= j

\* the detection being resolved has been given to tracked person i: last seen
\* updated in the store, track refreshed by register_face
CarriedOverTo(i) ==
    /\ assigned_id' = tracked_people[i].person_id
    /\ CountCalls(db_calls', "update_last_seen", tracked_people[i].person_id, "") = 1
    /\ Len(tracked_people') = Len(tracked_people)
    /\ tracked_people'[i].bbox = StepBox
    /\ tracked_people'[i].last_crop = Crop(frame_num, StepBox)

\* a step of the for loop over a detection that has a tracked person's current
\* box within the carry-over radius, and that does not end the run
CarryCandidateStep == pc = "resolve" /\ CurrentNear # {} /\ pc' # "crashed"

\* C26 as stated: a detection with a tracked person within 50 px is resolved
\* to that person, with or without an embedding.
C26_CarryOverBeforeEmbedding ==
    [][CarryCandidateStep => CarriedOverTo(FirstCurrentNear)]_vars

\* C26 amended: the embedding is extracted before the carry-over check: a
\* detection without an embedding is skipped even with a tracked person within
\* 50 px (no last-seen update, no register_face, nothing written), and a
\* detection with an embedding and such a person is resolved to that person.
C26_EmbeddingBeforeCarryOver ==
    [][CarryCandidateStep =>
         IF emb' = None
         THEN /\ db_calls' = <<>>
              /\ UNCHANGED <<tracked_people, people, face_data, visit_records,
                             known_embeddings, assigned_id>>
         ELSE CarriedOverTo(FirstCurrentNear)]_vars

\* the second detection of a frame, 5 px from the box the first was registered
\* with, has just been skipped for its missing embedding
C26_Witness ==
    /\ pc = "exits"
    /\ idx = 3
    /\ emb = None
    /\ db_calls = <<>>
    /\ \E i \in 1..Len(tracked_people) :
          /\ tracked_people[i].bbox = Box(detections[1])
          /\ tracked_people[i].last_crop = Crop(frame_num, Box(detections[1]))
          /\ Within(tracked_people[i].bbox, Box(detections[2]), CarryRadius)

\* a detection has just been resolved to a brand-new identity / to a known one
NewIdentityStep == ResolvedStep /\ is_new_person'
ReidentifiedStep == ResolvedStep /\ ~is_new_person'

\* line 225 returned True: the insert of lines 227-231 was called
FilterRetained == CountCalls(db_calls', "insert_face_data", assigned_id', "") = 1

\* the step's embedding went into the store and into the in-memory gallery
EmbeddingInserted ==
    /\ Len(face_data') = Len(face_data) + 1
    /\ SubSeq(face_data', 1, Len(face_data)) = face_data
    /\ face_data'[Len(face_data')].person_id = assigned_id'
    /\ face_data'[Len(face_data')].face_vector = emb'
    /\ known_embeddings' = Append(known_embeddings, <<assigned_id', emb'>>)

\* no persistence call raised during the step
FaultFreeStep == store_faults' = store_faults

\* C27: the diversity filter is consulted only for re-identifications. A new
\* identity is never offered to should_store_embedding and adds exactly one
\* embedding to the in-memory gallery, the one it was created from (and that
\* one to the store, unless register_person fails). A re-identified detection is offered to the filter
\* once; its embedding goes into the store and the in-memory gallery exactly
\* when the filter returns retain and the insert does not fail, and otherwise
\* into neither; a filter whose read does not fail retains exactly when none of
\* the person's 10 most recent stored embeddings is similar at or above the
\* diversity threshold.
C27_FilterOnlyOnReidentification ==
    /\ [][NewIdentityStep =>
            /\ CountOp(db_calls', "should_store_embedding") = 0
            /\ CountOp(db_calls', "insert_face_data") = 0
            /\ known_embeddings' = Append(known_embeddings, <<assigned_id', emb'>>)
            /\ \/ face_data' = face_data
               \/ face_data' = Append(face_data,
                                      FaceDoc(assigned_id', emb', timestamp_now'))
            /\ FaultFreeStep /\ assigned_id' \notin PersonIds(people) =>
                  face_data' # face_data]_vars
    /\ [][ReidentifiedStep =>
            /\ CountCalls(db_calls', "should_store_embedding", assigned_id', "") = 1
            /\ CountOp(db_calls', "should_store_embedding") = 1
            /\ EmbeddingInserted => FilterRetained
            /\ ~EmbeddingInserted => UNCHANGED <<face_data, known_embeddings>>
            /\ FaultFreeStep =>
                  /\ EmbeddingInserted <=> FilterRetained
                  /\ FilterRetained <=>
                        \A i \in RecentPositions(face_data, assigned_id', RecentLimit) :
                           ~SimilarAt(face_data, i, emb')]_vars

\* a person recognised by the gallery query has just had the embedding
\* retained by the filter and inserted
C27_Witness ==
    /\ pc \in {"resolve", "exits"}
    /\ ~is_new_person
    /\ CountOp(db_calls, "find_best_match") = 1
    /\ CountOp(db_calls, "should_store_embedding") = 1
    /\ CountOp(db_calls, "insert_face_data") = 1
    /\ known_embeddings # <<>>
    /\ known_embeddings[Len(known_embeddings)] = <<assigned_id, emb>>
    /\ face_data # <<>>
    /\ face_data[Len(face_data)].face_vector = emb

\* every track holds the face region of the frame and box of its latest match
LastCropOfLatestMatch ==
    \A i \in 1..Len(tracked_people) :
       tracked_people[i].last_crop =
          Crop(tracked_people[i].last_seen_frame, tracked_people[i].last_known_bbox)

\* every person handle_exits removes gets an exit record whose evidence is the
\* face region of the frame and box of the person's latest match
ExitEvidenceOfLatestMatch ==
    [][ExitsStep =>
         \A i \in 1..Len(tracked_people) :
            tracked_people[i].person_id \notin TrackedIds(tracked_people') =>
               \E k \in (Len(visit_records) + 1)..Len(visit_records') :
                  /\ visit_records'[k].person_id = tracked_people[i].person_id
                  /\ visit_records'[k].action = "exit"
                  /\ visit_records'[k].photo_path =
                        SavedPath("exits", Crop(tracked_people[i].last_seen_frame,
                                                tracked_people[i].last_known_bbox))]_vars

\* C28: a track's crop is overwritten on every match, by register_face or by
\* spatial assignment alone, so the crop saved with an exit record is the face
\* region of the person's most recent matching frame.
C28_LastCropFollowsEveryMatch ==
    /\ []LastCropOfLatestMatch
    /\ ExitEvidenceOfLatestMatch

\* the exit records of the visit log
Exits(vr) == SelectSeq(vr, LAMBDA r : r.action = "exit")

\* the people tracked before the step and no longer after it
Leaving == TrackedIds(tracked_people) \ TrackedIds(tracked_people')

\* C29: a personId leaves the tracked set only in a handle_exits step, which
\* also issues an exit record for that personId; every other step
\* (update_trackers, the resolution of a detection with its register_face,
\* opening and closing the run) keeps every tracked person, issues no exit
\* record and leaves the exit records of the visit log as they are.
C29_OnlyHandleExitsPrunes ==
    /\ [][Leaving # {} =>
            /\ ExitsStep
            /\ \A id \in Leaving :
                  CountCalls(db_calls', "save_visit_record", id, "exit") = 1]_vars
    /\ [][~ExitsStep =>
            /\ Leaving = {}
            /\ Len(tracked_people') >= Len(tracked_people)
            /\ \A i \in 1..Len(db_calls') :
                  ~(db_calls'[i].op = "save_visit_record" /\ db_calls'[i].arg = "exit")
            /\ Exits(visit_records') = Exits(visit_records)]_vars

\* the exit check of the second frame has removed one person, with an exit
\* record issued for that person, and kept another
C29_Witness ==
    /\ pc \in {"loop", "final"}
    /\ frame_num = 2
    /\ CountOp(db_calls, "save_visit_record") = 1
    /\ db_calls[1].arg = "exit"
    /\ db_calls[1].person_id \notin TrackedIds(tracked_people)
    /\ \E i \in 1..Len(known_embeddings) : known_embeddings[i][1] = db_calls[1].person_id
    /\ tracked_people # <<>>

\* get_next_person_id has just returned a fallback identifier, and the counter
\* update is the only persistence call of the step that failed
FallbackStep ==
    /\ MintStep
    /\ assigned_id'[1] = "person_"
    /\ store_faults' = store_faults - (IF counter = <<>> THEN 0 ELSE 1)

\* the detection of the step was resolved to its new identifier in full: the
\* person and the embedding are in the store, an entry record was written and
\* the person is tracked at the detection's box
ResolvedInFull ==
    /\ pc' # "crashed"
    /\ is_new_person'
    /\ PersonDoc(assigned_id', timestamp_now') \in
          {[p EXCEPT !.last_seen = timestamp_now', !.visit_count = 1] : p \in people'}
    /\ face_data' = Append(face_data, FaceDoc(assigned_id', emb', timestamp_now'))
    /\ known_embeddings' = Append(known_embeddings, <<assigned_id', emb'>>)
    /\ Len(visit_records') = Len(visit_records) + 1
    /\ visit_records'[Len(visit_records')].person_id = assigned_id'
    /\ visit_records'[Len(visit_records')].action = "entry"
    /\ \E i \in 1..Len(tracked_people') :
          /\ tracked_people'[i].person_id = assigned_id'
          /\ tracked_people'[i].bbox = StepBox
          /\ tracked_people'[i].last_seen_frame = frame_num

\* C30: when the counter update fails (the store raises or the counter
\* document is missing) get_next_person_id returns a fallback identifier and
\* the detection is resolved as usual: the person is registered, an entry
\* record is written and the person is tracked under the fallback identifier.
C30_FallbackProceeds ==
    [][FallbackStep => ResolvedInFull]_vars

\* the same for a fallback identifier that no earlier call has returned
FreshFallbackProceeds ==
    [][FallbackStep /\ assigned_id' \notin MintedIds => ResolvedInFull]_vars

\* the calls of the log that returned a counter identifier, and the numbers
CounterCalls == {i \in 1..Len(db_calls) : db_calls[i].person_id[1] = "person"}
IssuedNumbers == {db_calls[i].person_id[2] : i \in CounterCalls}

FrameDone == frame_num >= 1 /\ pc \in {"loop", "final", "release", "done"}

\* C32: at the end of every frame, after handle_exits with the configured
\* threshold, every person still tracked was last matched between 0 and
\* exit_thresh frames ago; last_seen_frame never exceeds the current frame
\* index, and never decreases for a person who stays tracked.
C32_Debounce ==
    /\ [](FrameDone =>
            \A i \in 1..Len(tracked_people) :
               /\ 0 <= frame_num - tracked_people[i].last_seen_frame
               /\ frame_num - tracked_people[i].last_seen_frame <= exit_thresh)
    /\ [](\A i \in 1..Len(tracked_people) :
             tracked_people[i].last_seen_frame <= frame_num)
    /\ [][\A i \in 1..Len(tracked_people), j \in 1..Len(tracked_people') :
             tracked_people[i].person_id = tracked_people'[j].person_id =>
                tracked_people[i].last_seen_frame <= tracked_people'[j].last_seen_frame]_vars

\* with threshold 1, a frame has ended with a person who was last matched in
\* the frame before still tracked
C32_Witness ==
    /\ pc = "loop"
    /\ exit_thresh = 1
    /\ \E i \in 1..Len(tracked_people) :
          frame_num - tracked_people[i].last_seen_frame = 1

\* C33: every tracked person always has a last known box, and a current box,
\* when present, equals it; update_trackers first clears every current box,
\* so after it a person has a current box exactly when a detection of this
\* frame was assigned to them (the box is that detection's and the person's
\* last_seen_frame is this frame), and otherwise keeps last known box and
\* last_seen_frame of an earlier frame.
C33_BoxesConsistent ==
    /\ [](\A i \in 1..Len(tracked_people) :
             /\ tracked_people[i].last_known_bbox # None
             /\ tracked_people[i].bbox # None =>
                   tracked_people[i].bbox = tracked_people[i].last_known_bbox)
    /\ [][UpdateTrackersStep =>
            \A i \in 1..Len(tracked_people') :
               IF tracked_people'[i].bbox # None
               THEN /\ \E d \in 1..Len(detections') :
                          tracked_people'[i].bbox = Box(detections'[d])
                    /\ tracked_people'[i].last_seen_frame = frame_num'
               ELSE /\ tracked_people'[i].last_seen_frame < frame_num'
                    /\ tracked_people'[i].last_seen_frame = tracked_people[i].last_seen_frame
                    /\ tracked_people'[i].last_known_bbox
                          = tracked_people[i].last_known_bbox]_vars

\* update_trackers has run on the third frame: one person was given a
\* detection, another, matched in the frame before, was left without
C33_Witness ==
    /\ TrackersUpdated
    /\ frame_num = 3
    /\ \E i \in 1..Len(tracked_people) :
          /\ tracked_people[i].bbox # None
          /\ tracked_people[i].last_seen_frame = 3
    /\ \E i \in 1..Len(tracked_people) :
          /\ tracked_people[i].bbox = None
          /\ tracked_people[i].last_seen_frame = 2

\* C34: once the detections of a frame have been resolved, and to the end of
\* the frame, each detection of the frame is the current box of at most one
\* tracked person.
C34_ExclusiveAfterResolution ==
    pc \in {"exits", "loop", "final"} =>
       \A d \in 1..Len(detections) :
          Cardinality(Holders(tracked_people, detections, d)) <= 1

StepTime == <<frame_num, idx>>

\* C36: every resolution has a timestamp taken while its own detection is
\* processed, and writes that one: as the person's last_seen in the store, as
\* the creation time of a retained embedding and as the track's
\* last_seen_time.
C36_TimestampsAreCurrent ==
    [][ResolvedStep =>
         /\ pc' # "crashed"
         /\ timestamp_now' = StepTime
         /\ \A p \in people' : p.person_id = assigned_id' => p.last_seen = StepTime
         /\ Len(face_data') > Len(face_data) =>
               face_data'[Len(face_data')].created_time = StepTime
         /\ \A i \in 1..Len(tracked_people') :
               tracked_people'[i].person_id = assigned_id' =>
                  tracked_people'[i].last_seen_time = StepTime]_vars

\* the detection being processed is no tracked person's current box
Unabsorbed == Holders(tracked_people, detections, idx) = {}

\* C37: a qualifying detection that no track absorbs waits at most N - 1
\* frames for its resolution (N = detect_skip): every frame whose index is a
\* multiple of N and that has detections is a resolution frame, so a frame
\* that ends with its detections unresolved is never one of those and at most
\* N - 1 such frames follow one another; a resolution frame processes each of
\* its detections in turn; and a detection processed with an embedding that
\* no track had absorbed becomes the current box of a tracked person.
C37_BoundedResolution ==
    /\ [][UpdateTrackersStep /\ detections' # <<>> /\ frame_num' % detect_skip = 0 =>
             pc' = "resolve" /\ idx' = 1]_vars
    /\ [](pc = "exits" /\ idx = 0 /\ detections # <<>> =>
             /\ frame_num % detect_skip # 0
             /\ frame_num + (detect_skip - (frame_num % detect_skip))
                   <= frame_num + detect_skip - 1
             /\ (frame_num + (detect_skip - (frame_num % detect_skip))) % detect_skip = 0)
    /\ [][pc = "resolve" =>
             /\ idx <= Len(detections)
             /\ pc' # "crashed"
             /\ idx' = idx + 1
             /\ idx < Len(detections) => pc' = "resolve"]_vars
    /\ [][pc = "resolve" /\ Unabsorbed /\ emb' # None =>
             /\ Holders(tracked_people', detections, idx) # {}
             /\ \A i \in Holders(tracked_people', detections, idx) :
                   /\ tracked_people'[i].person_id = assigned_id'
                   /\ tracked_people'[i].last_seen_frame = frame_num]_vars

\* with a person tracked since frame 2, a face shown elsewhere has been
\* resolved in frame 4 to a person first seen then
C37_Witness ==
    /\ pc = "exits"
    /\ frame_num = 4
    /\ Len(detections) = 1
    /\ \E i \in 1..Len(tracked_people) :
          /\ tracked_people[i].last_seen_frame = 2
          /\ ~Within(tracked_people[i].last_known_bbox, Box(detections[1]), MatchRadius)
    /\ \E i \in 1..Len(tracked_people) :
          /\ tracked_people[i].bbox = Box(detections[1])
          /\ tracked_people[i].last_seen_time = <<4, 1>>
          /\ \E p \in people :
                /\ p.person_id = tracked_people[i].person_id
                /\ p.first_seen = <<4, 1>>

\* a re-identification during which exactly one persistence call raised, and
\* not the entry record, the insert or the last-seen update, whose effects
\* are all there: the call that raised is the history read of the filter
ReadFailedStep ==
    /\ ReidentifiedStep
    /\ pc' # "crashed"
    /\ store_faults' = store_faults - 1
    /\ Len(Entries(visit_records')) - Len(Entries(visit_records))
          = CountOp(db_calls', "save_visit_record")
    /\ Len(face_data') - Len(face_data) = CountOp(db_calls', "insert_face_data")
    /\ people' = UpdateLastSeen(people, assigned_id', timestamp_now')
    /\ assigned_id' \in PersonIds(people)

\* C38: when the read of the person's stored embeddings raises,
\* should_store_embedding returns True instead of raising: the resolution goes
\* on, the insert of the embedding is called and the embedding goes into the
\* store and the in-memory gallery, however similar it is to the stored ones.
C38_ReadFailureRetains ==
    [][ReadFailedStep =>
         /\ CountCalls(db_calls', "should_store_embedding", assigned_id', "") = 1
         /\ FilterRetained
         /\ EmbeddingInserted
         /\ CountCalls(db_calls', "update_last_seen", assigned_id', "") = 1]_vars

\* the history read has failed for a detection whose embedding equals the one
\* stored for the person: the embedding has been stored a second time
C38_Witness ==
    /\ pc \in {"resolve", "exits"}
    /\ ~is_new_person
    /\ store_faults = 0
    /\ CountOp(db_calls, "insert_face_data") = 1
    /\ Len(face_data) = 2
    /\ face_data[1].person_id = assigned_id
    /\ face_data[2].person_id = assigned_id
    /\ face_data[1].face_vector = emb
    /\ face_data[2].face_vector = emb

====
